---------------------------- MODULE Spec2Model ----------------------------
(***************************************************************************)
(* Model of the lpass-rs authentication core: the Session login protocol   *)
(* (src/src/lib.rs), the key derivation functions (src/src/kdf.rs), the    *)
(* secure storage constructor (src/src/secure.rs), the HTTP status         *)
(* handling (src/src/http.rs) and the DOM builder (src/src/xml.rs).        *)
(*                                                                         *)
(* Representation.  A text (Rust String / &str) is a sequence of           *)
(* one-character strings; a byte string (Vec<u8>, &[u8], SecureStorage) is *)
(* a sequence of integers 0..255.  as_bytes / from_utf8 convert between    *)
(* the two through the ASCII table.  Option<T> is <<>> (None) or <<x>>     *)
(* (Some(x)).                                                              *)
(***************************************************************************)
EXTENDS Integers, Sequences, FiniteSets, TLC

(***************************************************************************)
(* Bounds of the model.                                                    *)
(***************************************************************************)
\* Number of OTP values the secret provider supplies within one login call.
MaxOtp == 2

(***************************************************************************)
(* Option<T>                                                               *)
(***************************************************************************)
None == <<>>
Some(x) == <<x>>
is_some(o) == o # <<>>
unwrap(o) == o[1]

(***************************************************************************)
(* Text and bytes                                                          *)
(***************************************************************************)
\* Printable ASCII, code 32 first.  The two characters that need escaping
\* are held by tokens that no modelled text uses.
AsciiChars ==
  <<" ", "!", "dquote", "#", "$", "%", "&", "'", "(", ")", "*", "+", ",", "-", ".", "/",
     "0", "1", "2", "3", "4", "5", "6", "7", "8", "9", ":", ";", "<", "=", ">", "?",
     "@", "A", "B", "C", "D", "E", "F", "G", "H", "I", "J", "K", "L", "M", "N", "O",
     "P", "Q", "R", "S", "T", "U", "V", "W", "X", "Y", "Z", "[", "backslash", "]", "^", "_",
     "backtick", "a", "b", "c", "d", "e", "f", "g", "h", "i", "j", "k", "l", "m", "n", "o",
     "p", "q", "r", "s", "t", "u", "v", "w", "x", "y", "z", "{", "|", "}", "~">>

S_unknownpassword ==
  <<"u", "n", "k", "n", "o", "w", "n", "p", "a", "s", "s", "w", "o", "r", "d">>
S_unkownemail ==
  <<"u", "n", "k", "o", "w", "n", "e", "m", "a", "i", "l">>
S_unknownemail ==
  <<"u", "n", "k", "n", "o", "w", "n", "e", "m", "a", "i", "l">>
S_otprequired ==
  <<"o", "t", "p", "r", "e", "q", "u", "i", "r", "e", "d">>
S_otpfailed ==
  <<"o", "t", "p", "f", "a", "i", "l", "e", "d">>
S_googleauthrequired ==
  <<"g", "o", "o", "g", "l", "e", "a", "u", "t", "h", "r", "e", "q", "u", "i", "r", "e", "d">>
S_googleauthfailed ==
  <<"g", "o", "o", "g", "l", "e", "a", "u", "t", "h", "f", "a", "i", "l", "e", "d">>
S_sesameotprequired ==
  <<"s", "e", "s", "a", "m", "e", "o", "t", "p", "r", "e", "q", "u", "i", "r", "e", "d">>
S_sesameotpfailed ==
  <<"s", "e", "s", "a", "m", "e", "o", "t", "p", "f", "a", "i", "l", "e", "d">>
S_outofbandrequired ==
  <<"o", "u", "t", "o", "f", "b", "a", "n", "d", "r", "e", "q", "u", "i", "r", "e", "d">>
S_multifactorresponsefailed ==
  <<"m", "u", "l", "t", "i", "f", "a", "c", "t", "o", "r", "r", "e", "s", "p", "o", "n", "s", "e", "f", "a", "i", "l", "e", "d">>
S_gridrestricted ==
  <<"g", "r", "i", "d", "r", "e", "s", "t", "r", "i", "c", "t", "e", "d">>
S_weirdcause ==
  <<"w", "e", "i", "r", "d", "c", "a", "u", "s", "e">>

Digits == <<"0", "1", "2", "3", "4", "5", "6", "7", "8", "9">>

\* Code point of an ASCII character and back.
CodeTable ==
  [c \in {AsciiChars[i] : i \in 1..Len(AsciiChars)} |->
     31 + (CHOOSE i \in 1..Len(AsciiChars) : AsciiChars[i] = c)]
Code(c) == CodeTable[c]
Char(b) == IF b >= 32 /\ b <= 126 THEN AsciiChars[b - 31] ELSE "control"

\* str::as_bytes / String::into_bytes (ASCII texts: one byte per character).
as_bytes(s) == [i \in 1..Len(s) |-> Code(s[i])]

\* String::from_utf8 on the modelled byte range: ASCII bytes decode to their
\* character (control characters to one token), a byte >= 128 that starts no
\* valid sequence is rejected.
utf8_valid(bytes) == \A i \in 1..Len(bytes) : bytes[i] < 128
from_utf8(bytes) == [i \in 1..Len(bytes) |-> Char(bytes[i])]

\* str::to_lowercase on ASCII text.
lower_char(c) ==
  IF Code(c) >= 65 /\ Code(c) <= 90 THEN Char(Code(c) + 32) ELSE c
to_lowercase(s) == [i \in 1..Len(s) |-> lower_char(s[i])]

DigitVal(c) == (CHOOSE i \in 1..10 : Digits[i] = c) - 1
IsDigit(c) == \E i \in 1..10 : Digits[i] = c

RECURSIVE digits_value(_)
digits_value(s) ==
  IF s = <<>> THEN 0
  ELSE 10 * digits_value(SubSeq(s, 1, Len(s) - 1)) + DigitVal(s[Len(s)])

RECURSIVE strip_zeros(_)
strip_zeros(s) ==
  IF s # <<>> /\ s[1] = "0" THEN strip_zeros(Tail(s)) ELSE s

\* u32::MAX, 4294967295, in decimal digits (the checker's integers are
\* narrower than u32, so the overflow test of the parser compares digits).
U32MaxDigits == <<"4", "2", "9", "4", "9", "6", "7", "2", "9", "5">>

\* a > b for two digit strings of the same length.
RECURSIVE digits_gt(_, _)
digits_gt(a, b) ==
  IF a = <<>> THEN FALSE
  ELSE IF DigitVal(a[1]) # DigitVal(b[1]) THEN DigitVal(a[1]) > DigitVal(b[1])
  ELSE digits_gt(Tail(a), Tail(b))

exceeds_u32(s) ==
  \/ Len(strip_zeros(s)) > Len(U32MaxDigits)
  \/ /\ Len(strip_zeros(s)) = Len(U32MaxDigits)
     /\ digits_gt(strip_zeros(s), U32MaxDigits)

\* u32::from_str: an optional leading "+", then at least one decimal digit,
\* value at most u32::MAX.  None stands for Err(ParseIntError).
u32_from_str(s) ==
  LET body == IF s # <<>> /\ s[1] = "+" THEN Tail(s) ELSE s
  IN  IF body = <<>> THEN None
      ELSE IF \E i \in 1..Len(body) : ~IsDigit(body[i]) THEN None
      ELSE IF exceeds_u32(body) THEN None
      ELSE Some(digits_value(strip_zeros(body)))

\* format!("{}", n) for an unsigned integer.
RECURSIVE fmt_u32(_)
fmt_u32(n) ==
  IF n < 10 THEN <<Digits[n + 1]>>
  ELSE fmt_u32(n \div 10) \o <<Digits[(n % 10) + 1]>>

(***************************************************************************)
(* error.rs: Error values.  Every Error is a record with the same fields;  *)
(* m is the OtpMethod of OtpRequired, code the status of HttpError, text   *)
(* the message of BadProtocol / Unsupported.                               *)
(***************************************************************************)
Error(kind, m, code, text) == [kind |-> kind, m |-> m, code |-> code, text |-> text]
NoError == Error("", "", 0, <<>>)
InvalidPassword == Error("InvalidPassword", "", 0, <<>>)
InvalidUser == Error("InvalidUser", "", 0, <<>>)
OtpRequired(m) == Error("OtpRequired", m, 0, <<>>)
IoError == Error("IoError", "", 0, <<>>)
CurlError == Error("CurlError", "", 0, <<>>)
HttpError(code) == Error("HttpError", "", code, <<>>)
BadProtocol(text) == Error("BadProtocol", "", 0, text)
Unsupported(text) == Error("Unsupported", "", 0, text)
XmlError == Error("XmlError", "", 0, <<>>)

\* From<num::ParseIntError> and From<string::FromUtf8Error>
from_ParseIntError == BadProtocol(<<"Integer conversion failed">>)
from_FromUtf8Error == BadProtocol(<<"Non-UTF8 string received">>)

\* Result<T>: Ok(v) or Err(e).
Ok(v) == [ok |-> TRUE, v |-> v, e |-> NoError]
Err(e) == [ok |-> FALSE, v |-> <<>>, e |-> e]

(***************************************************************************)
(* secure.rs: the part of Storage the session engine relies on.  A Storage *)
(* is represented by its content; locked is what the OS answers to the     *)
(* mlock call of this construction.                                        *)
(***************************************************************************)
\* mlock: empty regions are not locked and never fail.
mlock(s, locked) == IF s = <<>> \/ locked THEN Ok(<<>>) ELSE Err(IoError)

\* Storage::from_vec / Storage::from_buf
Storage_from_vec(v, locked) ==
  IF mlock(v, locked).ok THEN Ok(v) ELSE Err(mlock(v, locked).e)

(***************************************************************************)
(* secure.rs over the memory of the process.  The heap is the sequence of  *)
(* the regions allocated so far, a region [page, bytes, live, mlocks,      *)
(* munlocks]: the page the allocator placed it on, its bytes (as many as   *)
(* its capacity), whether it is still allocated, and how often libc::mlock *)
(* succeeded and libc::munlock was called on it.  Region 0 is the empty    *)
(* box, which owns no memory.  m is [heap, locked], locked being the set   *)
(* of locked pages: the OS locks and unlocks whole pages, and locks do not *)
(* stack (one munlock unlocks a page however often it was locked).  A      *)
(* Storage is [storage, len], storage being the region of its box.         *)
(***************************************************************************)
Region(page, bytes) ==
  [page |-> page, bytes |-> bytes, live |-> TRUE, mlocks |-> 0, munlocks |-> 0,
   at_lock |-> <<>>, at_unlock |-> <<>>, live_at_unlock |-> TRUE]

\* vec![0; n]
Zeros(n) == [i \in 1..n |-> 0]

\* The allocation of a box of the given bytes on the page the allocator
\* chose; r is its region.
alloc(m, bytes, page) ==
  IF bytes = <<>> THEN [m |-> m, r |-> 0]
  ELSE [m |-> [m EXCEPT !.heap = Append(@, Region(page, bytes))],
        r |-> Len(m.heap) + 1]

\* The release of a box that goes out of scope.
release(m, r) ==
  IF r = 0 THEN m ELSE [m EXCEPT !.heap[r].live = FALSE]

\* mlock on region r, granted being what the OS answers; at_lock is what the
\* region holds when libc::mlock is called.
mlock_region(m, r, granted) ==
  IF r = 0 THEN [m |-> m, res |-> Ok(<<>>)]
  ELSE IF ~granted THEN [m |-> m, res |-> Err(IoError)]
  ELSE [m |-> [m EXCEPT !.heap[r].at_lock = m.heap[r].bytes,
                        !.heap[r].mlocks = @ + 1,
                        !.locked = @ \cup {m.heap[r].page}],
        res |-> Ok(<<>>)]

\* A munlock that unlocks the pages first and clears the bytes afterwards.
munlock_region_unlock_first(m, r) ==
  IF r = 0 THEN m
  ELSE [m EXCEPT !.heap[r].at_unlock = m.heap[r].bytes,
                 !.heap[r].live_at_unlock = m.heap[r].live,
                 !.heap[r].bytes = Zeros(Len(@)),
                 !.heap[r].munlocks = @ + 1,
                 !.locked = @ \ {m.heap[r].page}]

\* munlock on region r: the bytes are cleared, then the pages unlocked;
\* at_unlock is what the region holds when libc::munlock is called and
\* live_at_unlock whether its box is still allocated then.
munlock_region(m, r) ==
  IF r = 0 THEN m
  ELSE LET cleared == [m EXCEPT !.heap[r].bytes = Zeros(Len(@))]
       IN  [cleared EXCEPT !.heap[r].at_unlock = cleared.heap[r].bytes,
                           !.heap[r].live_at_unlock = m.heap[r].live,
                           !.heap[r].munlocks = @ + 1,
                           !.locked = @ \ {m.heap[r].page}]

\* storage.len(): the capacity of a Storage.
capacity(m, st) == IF st.storage = 0 THEN 0 ELSE Len(m.heap[st.storage].bytes)

\* Storage::empty
Storage_empty == [storage |-> 0, len |-> 0]

\* Storage::from_vec / Storage::from_buf of a vector of the given bytes,
\* which the caller allocated on page.
Storage_from_buf(m, bytes, page, granted) ==
  LET a == alloc(m, bytes, page)
      l == mlock_region(a.m, a.r, granted)
  IN  IF ~l.res.ok
      THEN [m |-> release(l.m, a.r), st |-> None, res |-> l.res]
      ELSE [m |-> l.m, st |-> Some([storage |-> a.r, len |-> Len(bytes)]),
            res |-> Ok(<<>>)]

\* Storage::from_slice
Storage_from_slice(m, s, page, granted) ==
  LET f == Storage_from_buf(m, Zeros(Len(s)), page, granted)
  IN  IF ~f.res.ok \/ s = <<>> THEN f
      ELSE [f EXCEPT !.m.heap[unwrap(f.st).storage].bytes = s]

\* Storage::with_capacity
Storage_with_capacity(m, cap, page, granted) ==
  LET f == Storage_from_buf(m, Zeros(cap), page, granted)
  IN  IF ~f.res.ok THEN f
      ELSE [f EXCEPT !.st = Some([unwrap(f.st) EXCEPT !.len = 0])]

\* A reallocate that copies the bytes into the new box, then locks it, and
\* releases the old box before it clears and unlocks it.
reallocate_lock_last(m, st, new_capacity, page, granted) ==
  LET a == alloc(m, [i \in 1..new_capacity |->
                       IF i <= capacity(m, st) THEN m.heap[st.storage].bytes[i]
                       ELSE 0],
                 page)
      l == mlock_region(a.m, a.r, granted)
  IN  IF ~l.res.ok
      THEN [m |-> release(l.m, a.r), st |-> st, res |-> l.res]
      ELSE [m |-> munlock_region(release(l.m, st.storage), st.storage),
            st |-> [st EXCEPT !.storage = a.r],
            res |-> Ok(<<>>)]

\* A reallocate that moves to the new box without copying the bytes.
reallocate_without_copy(m, st, new_capacity, page, granted) ==
  LET a == alloc(m, Zeros(new_capacity), page)
      l == mlock_region(a.m, a.r, granted)
  IN  IF ~l.res.ok
      THEN [m |-> release(l.m, a.r), st |-> st, res |-> l.res]
      ELSE [m |-> release(munlock_region(l.m, st.storage), st.storage),
            st |-> [st EXCEPT !.storage = a.r],
            res |-> Ok(<<>>)]

\* Storage::reallocate
reallocate(m, st, new_capacity, page, granted) ==
  LET a == alloc(m, Zeros(new_capacity), page)
      l == mlock_region(a.m, a.r, granted)
  IN  IF ~l.res.ok
      THEN [m |-> release(l.m, a.r), st |-> st, res |-> l.res]
      ELSE LET copied ==
                 [l.m EXCEPT !.heap[a.r].bytes =
                    [i \in 1..new_capacity |->
                       IF i <= capacity(m, st) THEN m.heap[st.storage].bytes[i]
                       ELSE 0]]
               unlocked == munlock_region(copied, st.storage)
           IN  [m |-> release(unlocked, st.storage),
                st |-> [st EXCEPT !.storage = a.r],
                res |-> Ok(<<>>)]

\* The capacity of the first reallocation of an empty Storage.
FirstCapacity == 32

\* Storage::push
push(m, st, b, page, granted) ==
  LET r == IF st.len = capacity(m, st)
           THEN reallocate(m, st, IF st.len = 0 THEN FirstCapacity ELSE st.len * 2,
                           page, granted)
           ELSE [m |-> m, st |-> st, res |-> Ok(<<>>)]
  IN  IF ~r.res.ok THEN r
      ELSE [m |-> [r.m EXCEPT !.heap[r.st.storage].bytes[r.st.len + 1] = b],
            st |-> [r.st EXCEPT !.len = @ + 1],
            res |-> Ok(<<>>)]

\* Deref: the slice &self.storage[0..self.len].
Storage_deref(m, st) ==
  IF st.storage = 0 THEN <<>> ELSE SubSeq(m.heap[st.storage].bytes, 1, st.len)

\* An equality that compares the whole boxes.
Storage_eq_whole_box(self, other) ==
  /\ Len(self.box) = Len(other.box)
  /\ \A i \in 1..Len(self.box) : self.box[i] = other.box[i]

\* PartialEq for Storage: the lengths of the slices, then the zipped bytes.
\* self and other are [box, len]: the bytes of the box and the length.
Storage_eq(self, other) ==
  LET a == SubSeq(self.box, 1, self.len)
      b == SubSeq(other.box, 1, other.len)
      zipped == IF Len(a) < Len(b) THEN Len(a) ELSE Len(b)
  IN  /\ Len(a) = Len(b)
      /\ \A i \in 1..zipped : a[i] = b[i]

\* The box and length of a Storage in memory m.
Storage_view(m, st) ==
  [box |-> IF st.storage = 0 THEN <<>> ELSE m.heap[st.storage].bytes,
   len |-> st.len]

\* DerefMut: a write of b at index i (from 1) of the slice.
deref_mut_write(m, st, i, b) ==
  [m EXCEPT !.heap[st.storage].bytes[i] = b]

\* Drop for Storage, then the release of its box.
drop(m, st) == release(munlock_region(m, st.storage), st.storage)

(***************************************************************************)
(* kdf.rs                                                                  *)
(***************************************************************************)
\* Floor on the iteration count.
MinIterations == 1000
\* Length of both keys in bytes.
KeyLen == 32

\* openssl::pkcs5::pbkdf2_hmac with SHA-256 and 32 bytes of output, tabulated
\* for the inputs of the model (values computed with a reference
\* implementation; the login keys of (bob, password, 5000),
\* (bob, password, 1000) and (lpass-rs, sr-ssapl, 1000) are the vectors of
\* test_login_key).
Pbkdf2Table ==
  { \* crypto_key(bob, password, 1000)
    [pass |-> <<112, 97, 115, 115, 119, 111, 114, 100>>,
     salt |-> <<98, 111, 98>>,
     iter |-> 1000,
     out |-> <<216, 210, 219, 51, 168, 168, 253, 19, 239, 152, 115, 170, 29, 230, 239, 27, 187, 46, 195, 153, 124, 80, 20, 93, 247, 76, 6, 59, 42, 201, 59, 142>>]
  , \* login_key(bob, password, 1000)
    [pass |-> <<216, 210, 219, 51, 168, 168, 253, 19, 239, 152, 115, 170, 29, 230, 239, 27, 187, 46, 195, 153, 124, 80, 20, 93, 247, 76, 6, 59, 42, 201, 59, 142>>,
     salt |-> <<112, 97, 115, 115, 119, 111, 114, 100>>,
     iter |-> 1,
     out |-> <<99, 122, 71, 115, 56, 109, 21, 60, 231, 253, 46, 40, 31, 47, 159, 253, 178, 137, 68, 95, 121, 33, 77, 15, 213, 181, 32, 16, 197, 102, 122, 107>>]
  , \* crypto_key(bob, password, 5000)
    [pass |-> <<112, 97, 115, 115, 119, 111, 114, 100>>,
     salt |-> <<98, 111, 98>>,
     iter |-> 5000,
     out |-> <<196, 113, 180, 217, 41, 241, 34, 207, 249, 250, 67, 152, 191, 214, 217, 111, 248, 103, 231, 47, 224, 208, 233, 250, 219, 85, 178, 92, 119, 221, 32, 46>>]
  , \* login_key(bob, password, 5000)
    [pass |-> <<196, 113, 180, 217, 41, 241, 34, 207, 249, 250, 67, 152, 191, 214, 217, 111, 248, 103, 231, 47, 224, 208, 233, 250, 219, 85, 178, 92, 119, 221, 32, 46>>,
     salt |-> <<112, 97, 115, 115, 119, 111, 114, 100>>,
     iter |-> 1,
     out |-> <<246, 142, 239, 29, 50, 122, 127, 63, 42, 12, 45, 199, 161, 122, 99, 175, 161, 134, 4, 227, 115, 144, 198, 236, 55, 187, 113, 191, 151, 86, 183, 170>>]
  , \* crypto_key(bob, sr-ssapl, 1000)
    [pass |-> <<115, 114, 45, 115, 115, 97, 112, 108>>,
     salt |-> <<98, 111, 98>>,
     iter |-> 1000,
     out |-> <<172, 202, 100, 158, 56, 46, 3, 166, 2, 140, 62, 231, 233, 48, 91, 109, 138, 31, 244, 8, 119, 195, 41, 225, 156, 70, 85, 12, 128, 168, 21, 139>>]
  , \* login_key(bob, sr-ssapl, 1000)
    [pass |-> <<172, 202, 100, 158, 56, 46, 3, 166, 2, 140, 62, 231, 233, 48, 91, 109, 138, 31, 244, 8, 119, 195, 41, 225, 156, 70, 85, 12, 128, 168, 21, 139>>,
     salt |-> <<115, 114, 45, 115, 115, 97, 112, 108>>,
     iter |-> 1,
     out |-> <<77, 118, 61, 9, 155, 194, 14, 130, 75, 96, 148, 26, 78, 2, 133, 254, 246, 9, 47, 193, 130, 249, 105, 7, 43, 207, 133, 180, 196, 254, 106, 243>>]
  , \* crypto_key(bob, sr-ssapl, 5000)
    [pass |-> <<115, 114, 45, 115, 115, 97, 112, 108>>,
     salt |-> <<98, 111, 98>>,
     iter |-> 5000,
     out |-> <<25, 67, 148, 97, 65, 96, 195, 24, 178, 209, 249, 221, 27, 115, 227, 156, 13, 202, 203, 49, 1, 109, 160, 194, 175, 108, 252, 86, 78, 147, 67, 250>>]
  , \* login_key(bob, sr-ssapl, 5000)
    [pass |-> <<25, 67, 148, 97, 65, 96, 195, 24, 178, 209, 249, 221, 27, 115, 227, 156, 13, 202, 203, 49, 1, 109, 160, 194, 175, 108, 252, 86, 78, 147, 67, 250>>,
     salt |-> <<115, 114, 45, 115, 115, 97, 112, 108>>,
     iter |-> 1,
     out |-> <<245, 62, 101, 124, 173, 69, 131, 189, 122, 7, 228, 68, 184, 105, 236, 244, 17, 38, 38, 55, 67, 192, 173, 106, 226, 56, 107, 39, 104, 205, 21, 150>>]
  , \* crypto_key(lpass-rs, password, 1000)
    [pass |-> <<112, 97, 115, 115, 119, 111, 114, 100>>,
     salt |-> <<108, 112, 97, 115, 115, 45, 114, 115>>,
     iter |-> 1000,
     out |-> <<239, 185, 138, 136, 30, 166, 108, 139, 132, 46, 161, 1, 48, 164, 82, 19, 228, 79, 250, 20, 148, 51, 87, 117, 77, 90, 85, 8, 170, 159, 245, 177>>]
  , \* login_key(lpass-rs, password, 1000)
    [pass |-> <<239, 185, 138, 136, 30, 166, 108, 139, 132, 46, 161, 1, 48, 164, 82, 19, 228, 79, 250, 20, 148, 51, 87, 117, 77, 90, 85, 8, 170, 159, 245, 177>>,
     salt |-> <<112, 97, 115, 115, 119, 111, 114, 100>>,
     iter |-> 1,
     out |-> <<33, 59, 213, 121, 174, 2, 144, 31, 131, 152, 30, 215, 71, 253, 62, 90, 23, 18, 95, 167, 104, 111, 173, 238, 121, 126, 11, 146, 177, 1, 113, 219>>]
  , \* crypto_key(lpass-rs, password, 5000)
    [pass |-> <<112, 97, 115, 115, 119, 111, 114, 100>>,
     salt |-> <<108, 112, 97, 115, 115, 45, 114, 115>>,
     iter |-> 5000,
     out |-> <<53, 19, 141, 169, 235, 179, 110, 159, 232, 168, 131, 34, 78, 68, 89, 84, 229, 93, 127, 79, 243, 228, 154, 14, 157, 220, 73, 171, 123, 251, 74, 109>>]
  , \* login_key(lpass-rs, password, 5000)
    [pass |-> <<53, 19, 141, 169, 235, 179, 110, 159, 232, 168, 131, 34, 78, 68, 89, 84, 229, 93, 127, 79, 243, 228, 154, 14, 157, 220, 73, 171, 123, 251, 74, 109>>,
     salt |-> <<112, 97, 115, 115, 119, 111, 114, 100>>,
     iter |-> 1,
     out |-> <<245, 115, 182, 158, 94, 152, 200, 160, 101, 138, 65, 72, 80, 15, 25, 7, 58, 128, 237, 241, 190, 109, 249, 155, 176, 224, 166, 16, 211, 163, 22, 63>>]
  , \* crypto_key(lpass-rs, sr-ssapl, 1000)
    [pass |-> <<115, 114, 45, 115, 115, 97, 112, 108>>,
     salt |-> <<108, 112, 97, 115, 115, 45, 114, 115>>,
     iter |-> 1000,
     out |-> <<18, 79, 135, 105, 79, 132, 50, 194, 9, 145, 30, 209, 190, 88, 130, 2, 10, 13, 98, 174, 240, 125, 65, 240, 54, 110, 2, 136, 101, 118, 254, 130>>]
  , \* login_key(lpass-rs, sr-ssapl, 1000)
    [pass |-> <<18, 79, 135, 105, 79, 132, 50, 194, 9, 145, 30, 209, 190, 88, 130, 2, 10, 13, 98, 174, 240, 125, 65, 240, 54, 110, 2, 136, 101, 118, 254, 130>>,
     salt |-> <<115, 114, 45, 115, 115, 97, 112, 108>>,
     iter |-> 1,
     out |-> <<172, 63, 139, 242, 41, 144, 110, 60, 255, 25, 100, 54, 239, 231, 27, 231, 63, 5, 105, 44, 4, 73, 182, 51, 75, 215, 52, 195, 16, 198, 162, 97>>]
  , \* crypto_key(lpass-rs, sr-ssapl, 5000)
    [pass |-> <<115, 114, 45, 115, 115, 97, 112, 108>>,
     salt |-> <<108, 112, 97, 115, 115, 45, 114, 115>>,
     iter |-> 5000,
     out |-> <<6, 71, 63, 246, 41, 165, 87, 90, 62, 149, 154, 65, 1, 212, 241, 65, 11, 46, 206, 175, 61, 20, 157, 148, 49, 201, 152, 203, 201, 4, 17, 173>>]
  , \* login_key(lpass-rs, sr-ssapl, 5000)
    [pass |-> <<6, 71, 63, 246, 41, 165, 87, 90, 62, 149, 154, 65, 1, 212, 241, 65, 11, 46, 206, 175, 61, 20, 157, 148, 49, 201, 152, 203, 201, 4, 17, 173>>,
     salt |-> <<115, 114, 45, 115, 115, 97, 112, 108>>,
     iter |-> 1,
     out |-> <<94, 111, 17, 14, 212, 168, 115, 12, 16, 98, 202, 250, 237, 45, 228, 70, 199, 111, 3, 208, 73, 87, 123, 126, 89, 232, 250, 29, 119, 30, 250, 19>>]
  , \* PBKDF2 itself has no floor: (bob, password, 999)
    [pass |-> <<112, 97, 115, 115, 119, 111, 114, 100>>,
     salt |-> <<98, 111, 98>>,
     iter |-> 999,
     out |-> <<159, 236, 247, 194, 18, 160, 82, 133, 240, 224, 222, 102, 177, 128, 162, 193, 134, 5, 142, 50, 213, 14, 109, 21, 204, 89, 176, 79, 41, 59, 19, 27>>]
  , \* PBKDF2 itself has no floor: (bob, sr-ssapl, 999)
    [pass |-> <<115, 114, 45, 115, 115, 97, 112, 108>>,
     salt |-> <<98, 111, 98>>,
     iter |-> 999,
     out |-> <<51, 151, 64, 240, 251, 119, 129, 106, 118, 25, 235, 33, 27, 98, 99, 111, 188, 60, 89, 73, 46, 170, 84, 196, 89, 61, 97, 130, 33, 159, 254, 25>>]
  , \* PBKDF2 itself has no floor: (lpass-rs, password, 999)
    [pass |-> <<112, 97, 115, 115, 119, 111, 114, 100>>,
     salt |-> <<108, 112, 97, 115, 115, 45, 114, 115>>,
     iter |-> 999,
     out |-> <<177, 138, 4, 104, 99, 175, 154, 156, 6, 157, 241, 170, 84, 168, 2, 121, 244, 62, 57, 37, 163, 242, 41, 202, 231, 253, 149, 89, 207, 65, 185, 136>>]
  , \* PBKDF2 itself has no floor: (lpass-rs, sr-ssapl, 999)
    [pass |-> <<115, 114, 45, 115, 115, 97, 112, 108>>,
     salt |-> <<108, 112, 97, 115, 115, 45, 114, 115>>,
     iter |-> 999,
     out |-> <<166, 17, 146, 195, 51, 196, 7, 148, 143, 193, 231, 37, 250, 255, 234, 3, 208, 85, 14, 1, 3, 127, 187, 34, 148, 243, 71, 112, 26, 89, 94, 27>>]
  }

pbkdf2_hmac(pass, salt, iter) ==
  (CHOOSE r \in Pbkdf2Table : r.iter = iter /\ r.salt = salt /\ r.pass = pass).out

low_iterations(n) ==
  Unsupported(<<"Iteration count too low (">> \o fmt_u32(n) \o <<")">>)

\* A crypto_key whose floor is one too low.
kdf_crypto_key_floor_999(user, pass, n, locked) ==
  IF n < MinIterations - 1 THEN Err(low_iterations(n))
  ELSE IF ~Storage_from_vec([i \in 1..KeyLen |-> 0], locked).ok
       THEN Err(Storage_from_vec([i \in 1..KeyLen |-> 0], locked).e)
  ELSE Ok(pbkdf2_hmac(pass, as_bytes(user), n))

\* kdf::crypto_key (called decryption_key by Session::login).  locked is the
\* outcome of locking the 32-byte key buffer.
kdf_crypto_key(user, pass, n, locked) ==
  IF n < MinIterations THEN Err(low_iterations(n))
  ELSE IF ~Storage_from_vec([i \in 1..KeyLen |-> 0], locked).ok
       THEN Err(Storage_from_vec([i \in 1..KeyLen |-> 0], locked).e)
  ELSE Ok(pbkdf2_hmac(pass, as_bytes(user), n))

\* A login_key without its second derivation: the decryption key itself.
kdf_login_key_single_stage(user, pass, n, locks) ==
  IF n < MinIterations THEN Err(low_iterations(n))
  ELSE kdf_crypto_key(user, pass, n, locks[1])

\* kdf::login_key.  locks[1] is the outcome of locking the decryption key
\* buffer, locks[2] of locking the login key buffer.
kdf_login_key(user, pass, n, locks) ==
  IF n < MinIterations THEN Err(low_iterations(n))
  ELSE LET decrypt_key == kdf_crypto_key(user, pass, n, locks[1])
       IN  IF ~decrypt_key.ok THEN decrypt_key
           ELSE IF ~Storage_from_vec([i \in 1..KeyLen |-> 0], locks[2]).ok
                THEN Err(Storage_from_vec([i \in 1..KeyLen |-> 0], locks[2]).e)
           ELSE Ok(pbkdf2_hmac(decrypt_key.v, pass, 1))

(***************************************************************************)
(* xml.rs                                                                  *)
(***************************************************************************)
\* OwnedAttribute and Element.  Names are the local names.
Attribute(name, value) == [name |-> name, value |-> value]
Element(name, attributes, children) ==
  [name |-> name, attributes |-> attributes, children |-> children]

\* Events of the xml-rs EventReader.  Error is an Err item of the iterator.
StartElement(name, attributes) == [t |-> "StartElement", name |-> name, attributes |-> attributes]
EndElement(name) == [t |-> "EndElement", name |-> name, attributes |-> <<>>]
OtherEvent == [t |-> "Other", name |-> "", attributes |-> <<>>]
ErrorEvent == [t |-> "Error", name |-> "", attributes |-> <<>>]

\* Markup as the reader meets it: opening tags, closing tags, text.
Open(name, attributes) == [t |-> "Open", name |-> name, attributes |-> attributes]
Close(name) == [t |-> "Close", name |-> name, attributes |-> <<>>]
Text == [t |-> "Text", name |-> "", attributes |-> <<>>]

\* The items of EventReader::new(reader) from the given tokens on, open
\* being the names of the elements open so far (outermost first) and rooted
\* whether a root element was met.  The reader checks that the document is
\* well formed: a closing tag that does not match the open element, or the
\* end of the input inside an element or before any element, is an Err
\* item, the last one.  strict is whether the reader also rejects an
\* element that follows the root element.
RECURSIVE EventReader_from(_, _, _, _)
EventReader_from(tokens, open, rooted, strict) ==
  IF tokens = <<>>
  THEN IF open # <<>> \/ ~rooted THEN <<ErrorEvent>> ELSE <<OtherEvent>>
  ELSE LET k == Head(tokens)
       IN  CASE k.t = "Open" ->
                  IF open = <<>> /\ rooted /\ strict THEN <<ErrorEvent>>
                  ELSE <<StartElement(k.name, k.attributes)>>
                         \o EventReader_from(Tail(tokens), Append(open, k.name),
                                             TRUE, strict)
             [] k.t = "Close" ->
                  IF open = <<>> \/ open[Len(open)] # k.name THEN <<ErrorEvent>>
                  ELSE <<EndElement(k.name)>>
                         \o EventReader_from(Tail(tokens),
                                             SubSeq(open, 1, Len(open) - 1),
                                             rooted, strict)
             [] OTHER ->
                  <<OtherEvent>> \o EventReader_from(Tail(tokens), open, rooted, strict)

\* EventReader::new(reader): the events of a document, StartDocument first.
EventReader(markup, strict) ==
  <<OtherEvent>> \o EventReader_from(markup, <<>>, FALSE, strict)

\* A child lookup that takes the last child named name.
Element_child_last(e, name) ==
  IF \E i \in 1..Len(e.children) : e.children[i].name = name
  THEN Some(e.children[CHOOSE i \in 1..Len(e.children) :
                         /\ e.children[i].name = name
                         /\ \A j \in (i + 1)..Len(e.children) :
                              e.children[j].name # name])
  ELSE None

\* Element::child: the first child named name.
Element_child(e, name) ==
  IF \E i \in 1..Len(e.children) : e.children[i].name = name
  THEN Some(e.children[CHOOSE i \in 1..Len(e.children) :
                         /\ e.children[i].name = name
                         /\ \A j \in 1..(i - 1) : e.children[j].name # name])
  ELSE None

\* Element::attribute: the first attribute named name.
Element_attribute(e, name) ==
  IF \E i \in 1..Len(e.attributes) : e.attributes[i].name = name
  THEN Some(e.attributes[CHOOSE i \in 1..Len(e.attributes) :
                           /\ e.attributes[i].name = name
                           /\ \A j \in 1..(i - 1) : e.attributes[j].name # name])
  ELSE None

\* The loop of Dom::do_parse over the remaining events with the element
\* stack (bottom first).  kind is "Ok" (with the root), "Err" (the reader
\* yielded an error) or "Panic" (an unwrap or assert of the builder failed).
RECURSIVE do_parse_loop(_, _)
\* A loop that puts a closed element before the children its parent has.
RECURSIVE do_parse_loop_prepending(_, _)
do_parse_loop_prepending(events, stack) ==
  IF events = <<>>
  THEN IF Len(stack) = 1
       THEN [kind |-> "Ok", root |-> stack[1]]
       ELSE [kind |-> "Panic", root |-> stack[1]]
  ELSE LET e == Head(events)
       IN  CASE e.t = "Error" -> [kind |-> "Err", root |-> stack[1]]
             [] e.t = "StartElement" ->
                  do_parse_loop_prepending(
                    Tail(events), Append(stack, Element(e.name, e.attributes, <<>>)))
             [] e.t = "EndElement" ->
                  LET elem == stack[Len(stack)]
                      rest == SubSeq(stack, 1, Len(stack) - 1)
                  IN  IF e.name # elem.name \/ rest = <<>>
                      THEN [kind |-> "Panic", root |-> stack[1]]
                      ELSE LET parent == rest[Len(rest)]
                               grown == [parent EXCEPT !.children = <<elem>> \o @]
                           IN  do_parse_loop_prepending(
                                 Tail(events), [rest EXCEPT ![Len(rest)] = grown])
             [] OTHER -> do_parse_loop_prepending(Tail(events), stack)

\* A loop that passes over the Err items of the reader.
RECURSIVE do_parse_loop_skipping_errors(_, _)
do_parse_loop_skipping_errors(events, stack) ==
  IF events = <<>>
  THEN IF Len(stack) = 1
       THEN [kind |-> "Ok", root |-> stack[1]]
       ELSE [kind |-> "Panic", root |-> stack[1]]
  ELSE LET e == Head(events)
       IN  CASE e.t = "StartElement" ->
                  do_parse_loop_skipping_errors(
                    Tail(events), Append(stack, Element(e.name, e.attributes, <<>>)))
             [] e.t = "EndElement" ->
                  LET elem == stack[Len(stack)]
                      rest == SubSeq(stack, 1, Len(stack) - 1)
                  IN  IF e.name # elem.name \/ rest = <<>>
                      THEN [kind |-> "Panic", root |-> stack[1]]
                      ELSE LET parent == rest[Len(rest)]
                               grown == [parent EXCEPT !.children = Append(@, elem)]
                           IN  do_parse_loop_skipping_errors(
                                 Tail(events), [rest EXCEPT ![Len(rest)] = grown])
             [] OTHER -> do_parse_loop_skipping_errors(Tail(events), stack)

do_parse_loop(events, stack) ==
  IF events = <<>>
  THEN IF Len(stack) = 1
       THEN [kind |-> "Ok", root |-> stack[1]]
       ELSE [kind |-> "Panic", root |-> stack[1]]
  ELSE LET e == Head(events)
       IN  CASE e.t = "Error" -> [kind |-> "Err", root |-> stack[1]]
             [] e.t = "StartElement" ->
                  do_parse_loop(Tail(events),
                                Append(stack, Element(e.name, e.attributes, <<>>)))
             [] e.t = "EndElement" ->
                  LET elem == stack[Len(stack)]
                      rest == SubSeq(stack, 1, Len(stack) - 1)
                  IN  IF e.name # elem.name \/ rest = <<>>
                      THEN [kind |-> "Panic", root |-> stack[1]]
                      ELSE LET parent == rest[Len(rest)]
                               grown == [parent EXCEPT !.children = Append(@, elem)]
                           IN  do_parse_loop(Tail(events),
                                             [rest EXCEPT ![Len(rest)] = grown])
             [] OTHER -> do_parse_loop(Tail(events), stack)

\* element_stack (bottom first) once the for loop of Dom::do_parse has
\* taken the events, starting from stack.  kind is "Ok" while the loop runs
\* on, "Err" when the reader yielded an error and "Panic" when an unwrap or
\* the assert on the name failed; the stack is then the one the loop
\* stopped with.
RECURSIVE do_parse_stack(_, _)
do_parse_stack(events, stack) ==
  IF events = <<>> THEN [kind |-> "Ok", stack |-> stack]
  ELSE LET e == Head(events)
       IN  CASE e.t = "Error" -> [kind |-> "Err", stack |-> stack]
             [] e.t = "StartElement" ->
                  do_parse_stack(Tail(events),
                                 Append(stack, Element(e.name, e.attributes, <<>>)))
             [] e.t = "EndElement" ->
                  IF stack = <<>> THEN [kind |-> "Panic", stack |-> stack]
                  ELSE LET elem == stack[Len(stack)]
                           rest == SubSeq(stack, 1, Len(stack) - 1)
                       IN  IF e.name # elem.name \/ rest = <<>>
                           THEN [kind |-> "Panic", stack |-> rest]
                           ELSE do_parse_stack(
                                  Tail(events),
                                  [rest EXCEPT ![Len(rest)].children = Append(@, elem)])
             [] OTHER -> do_parse_stack(Tail(events), stack)

\* Dom::parse / Dom::do_parse
Dom_parse(events) == do_parse_loop(events, <<Element("[root]", <<>>, <<>>)>>)

\* Dom::element
RECURSIVE Dom_element_from(_, _)
Dom_element_from(cur, path) ==
  IF path = <<>> THEN Some(cur)
  ELSE IF Element_child(cur, Head(path)) = None THEN None
  ELSE Dom_element_from(unwrap(Element_child(cur, Head(path))), Tail(path))

Dom_element(root, path) == Dom_element_from(root, path)

(***************************************************************************)
(* http.rs: what post returns for what the network did.  A reply is        *)
(* [transport, status, body, xml]: transport is FALSE when no HTTP         *)
(* response arrived (DNS, connect, TLS handshake with its certificate      *)
(* callback, I/O), body holds the response bytes of iterations.php, xml    *)
(* the event stream the XML reader produces from the bytes of login.php.   *)
(***************************************************************************)
Reply(transport, status, body, xml) ==
  [transport |-> transport, status |-> status, body |-> body, xml |-> xml]

HttpOk == 200

\* request.fail_on_error(true): libcurl makes the transfer itself fail
\* (CURLE_HTTP_RETURNED_ERROR) when the status is 400 or more.
FailOnErrorFrom == 400

\* transfer.perform(): a curl error when no response arrived or when
\* fail_on_error turns the status into one.
transfer_perform(reply) ==
  IF ~reply.transport \/ reply.status >= FailOnErrorFrom
  THEN Err(CurlError)
  ELSE Ok(reply)

\* http::post: the response only for status 200.
http_post(reply) ==
  IF ~transfer_perform(reply).ok THEN Err(transfer_perform(reply).e)
  ELSE IF reply.status # HttpOk THEN Err(HttpError(reply.status))
  ELSE Ok(reply)

\* PINNED_CERTIFICATES
PINNED_CERTIFICATES ==
  << "HXXQgxueCIU5TTLHob/bPbwcKOKw6DkfsTWYHbxbqTY=",
     "lCppFqbkrlJ3EcVFAkeip0+44VaoJUymbnOaEUk7tEU=",
     "iie1VXtL7HzAMF+/PVPR9xzT80kQxdZeJ+zduCB3uj0=",
     "0hkr5YW/WE6Nq5hNTcApxpuaiwlwy5HUFiOt3Qd9VBc=",
     "8CzY4qWQKZjFDwHXTOIpsVfWkiVnrhQOJEM4Q2b2Ar4=",
     "SQAWwwYXoceSd8VNbiyxspGXEjFndkklEO2XzLMts10=",
     "qr2VCNpUi0PK80PfRyF7lFBIEU1Gzz931k03hrD+xGQ=" >>

\* A certificate as verify_pinned_certificate sees it: whether public_key()
\* and public_key_to_der() succeed, and encoded, the base64 of the SHA-256
\* of the DER public key.
Certificate(pkey, der, encoded) ==
  [pkey |-> pkey, der |-> der, encoded |-> encoded]

\* The body of the loop over the chain: TRUE when it returns true for cert.
found_pinned(cert) ==
  /\ cert.pkey
  /\ cert.der
  /\ \E i \in 1..Len(PINNED_CERTIFICATES) : cert.encoded = PINNED_CERTIFICATES[i]

\* A verify_pinned_certificate that looks for the pins whatever the standard
\* validation said.
verify_pinned_certificate_pins_only(preverify_ok, chain) ==
  IF chain = None THEN FALSE
  ELSE \E i \in 1..Len(unwrap(chain)) : found_pinned(unwrap(chain)[i])

\* A verify_pinned_certificate that looks at the leaf only.
verify_pinned_certificate_leaf_only(preverify_ok, chain) ==
  IF ~preverify_ok THEN FALSE
  ELSE IF chain = None \/ unwrap(chain) = <<>> THEN FALSE
  ELSE found_pinned(unwrap(chain)[1])

\* verify_pinned_certificate: chain is what store.get_chain() returns.
verify_pinned_certificate(preverify_ok, chain) ==
  IF ~preverify_ok THEN FALSE
  ELSE IF chain = None THEN FALSE
  ELSE \E i \in 1..Len(unwrap(chain)) : found_pinned(unwrap(chain)[i])

(***************************************************************************)
(* lib.rs: OtpMethod                                                       *)
(***************************************************************************)
OtpMethods == {"YubiKey", "GoogleAuthenticator", "Sesame"}

\* A post_var that names every code otp.
post_var_always_otp(m) == "otp"

\* OtpMethod::post_var
post_var(m) == IF m = "Sesame" THEN "sesameotp" ELSE "otp"

(***************************************************************************)
(* lib.rs: Session                                                         *)
(***************************************************************************)
\* A Session::new that keeps the username as given.
Session_new_case_kept(name) ==
  [username |-> name,
   server |-> "lastpass.com",
   iterations |-> None,
   uid |-> None,
   session_id |-> None,
   session_token |-> None,
   crypto_key |-> None]

\* Session::new
Session_new(name) ==
  [username |-> to_lowercase(name),
   server |-> "lastpass.com",
   iterations |-> None,
   uid |-> None,
   session_id |-> None,
   session_token |-> None,
   crypto_key |-> None]

\* Session::is_authenticated
is_authenticated(self) == is_some(self.session_id) /\ is_some(self.session_token)

\* A POST handed to Session::post: the page and the ordered (name, value)
\* fields; names are the byte-string literals of the source, values bytes.
Request(page, fields) == [page |-> page, fields |-> fields]

\* The request of Session::server_iterations.
iterations_request(self) ==
  Request("iterations.php", << <<"email", as_bytes(self.username)>> >>)

\* A server_iterations that takes no count of zero.
server_iterations_positive(self, reply) ==
  LET response == http_post(reply)
  IN  IF ~response.ok THEN Err(response.e)
      ELSE IF ~utf8_valid(reply.body) THEN Err(from_FromUtf8Error)
      ELSE IF u32_from_str(from_utf8(reply.body)) \in {None, Some(0)}
           THEN Err(from_ParseIntError)
      ELSE Ok(unwrap(u32_from_str(from_utf8(reply.body))))

\* Session::server_iterations, given the network's reply to its request.
server_iterations(self, reply) ==
  LET response == http_post(reply)
  IN  IF ~response.ok THEN Err(response.e)
      ELSE IF ~utf8_valid(reply.body) THEN Err(from_FromUtf8Error)
      ELSE IF u32_from_str(from_utf8(reply.body)) = None THEN Err(from_ParseIntError)
      ELSE Ok(unwrap(u32_from_str(from_utf8(reply.body))))

\* An iterations that asks the server whatever is cached.
Session_iterations_uncached(self, reply) ==
  LET r == server_iterations(self, reply)
  IN  IF ~r.ok
      THEN [self |-> self, res |-> r, sent |-> <<iterations_request(self)>>]
      ELSE [self |-> [self EXCEPT !.iterations = Some(r.v)],
            res |-> r, sent |-> <<iterations_request(self)>>]

\* Session::iterations: the cached value, or one request whose value is
\* cached on success.  sent lists the requests made.
Session_iterations(self, reply) ==
  IF is_some(self.iterations)
  THEN [self |-> self, res |-> Ok(unwrap(self.iterations)), sent |-> <<>>]
  ELSE LET r == server_iterations(self, reply)
       IN  IF ~r.ok
           THEN [self |-> self, res |-> r, sent |-> <<iterations_request(self)>>]
           ELSE [self |-> [self EXCEPT !.iterations = Some(r.v)],
                 res |-> r, sent |-> <<iterations_request(self)>>]

\* b"0123456789abcdef"
to_hex == as_bytes(Digits \o <<"a", "b", "c", "d", "e", "f">>)

\* The hex-encoding loop of Session::login.
hex_encode(key) ==
  [j \in 1..(2 * Len(key)) |->
     LET b == key[(j + 1) \div 2]
     IN  IF j % 2 = 1 THEN to_hex[(b \div 16) + 1] ELSE to_hex[(b % 16) + 1]]

\* The params slice of Session::login.
login_params(username, hex_key, iter_str) ==
  << <<"xml", as_bytes(<<"2">>)>>,
     <<"username", as_bytes(username)>>,
     <<"hash", hex_key>>,
     <<"iterations", as_bytes(iter_str)>>,
     <<"includeprivatekeyenc", as_bytes(<<"1">>)>>,
     <<"method", as_bytes(<<"c", "l", "i">>)>>,
     <<"outofbandsupported", as_bytes(<<"0">>)>> >>

\* Session::login up to its first try_login: the iteration count, the login
\* key, its hex form and the base fields.  locks are the outcomes of the
\* three memory locks (decryption key, login key, hex key) in call order.
\* res is Ok(params) when the first login.php request is to be sent.
login_begin(self, password, iter_reply, locks) ==
  LET it1 == Session_iterations(self, iter_reply)
  IN  IF ~it1.res.ok
      THEN [self |-> it1.self, res |-> it1.res, sent |-> it1.sent, iterations |-> 0]
      ELSE
      LET iters == it1.res.v
          login_key == kdf_login_key(it1.self.username, password, iters, locks)
      IN  IF ~login_key.ok
          THEN [self |-> it1.self, res |-> login_key, sent |-> it1.sent,
                iterations |-> iters]
          ELSE
          LET it2 == Session_iterations(it1.self, iter_reply)
              sent == it1.sent \o it2.sent
          IN  IF ~it2.res.ok
              THEN [self |-> it2.self, res |-> it2.res, sent |-> sent,
                    iterations |-> iters]
              ELSE
              LET hex_key == Storage_from_vec([i \in 1..(2 * Len(login_key.v)) |-> 0],
                                              locks[3])
              IN  IF ~hex_key.ok
                  THEN [self |-> it2.self, res |-> hex_key, sent |-> sent,
                        iterations |-> iters]
                  ELSE [self |-> it2.self,
                        res |-> Ok(login_params(it2.self.username,
                                                hex_encode(login_key.v),
                                                fmt_u32(it2.res.v))),
                        sent |-> sent,
                        iterations |-> iters]

\* A get_attrib that takes a missing attribute for an empty one.
get_attrib_defaulting(ok_node, attr) ==
  IF Element_attribute(ok_node, attr) = None
  THEN Ok(<<>>)
  ELSE Ok(unwrap(Element_attribute(ok_node, attr)).value)

\* The get_attrib closure of finalize_login.
get_attrib(ok_node, attr) ==
  IF Element_attribute(ok_node, attr) = None
  THEN Err(BadProtocol(<<"Missing XML attribute '", attr, "'">>))
  ELSE Ok(unwrap(Element_attribute(ok_node, attr)).value)

\* Session::finalize_login.  locks are the outcomes of locking the session
\* id and the token.
finalize_login(self, ok_node, locks) ==
  LET uid == get_attrib(ok_node, "uid")
      session_id == get_attrib(ok_node, "sessionid")
      token == get_attrib(ok_node, "token")
      private_key_enc == get_attrib(ok_node, "privatekeyenc")
  IN  IF ~uid.ok THEN [self |-> self, res |-> uid]
      ELSE IF ~session_id.ok THEN [self |-> self, res |-> session_id]
      ELSE IF ~token.ok THEN [self |-> self, res |-> token]
      ELSE IF ~private_key_enc.ok THEN [self |-> self, res |-> private_key_enc]
      ELSE IF u32_from_str(uid.v) = None
           THEN [self |-> self, res |-> Err(from_ParseIntError)]
      ELSE
      LET s1 == [self EXCEPT !.uid = Some(unwrap(u32_from_str(uid.v)))]
          sid == Storage_from_vec(as_bytes(session_id.v), locks[1])
      IN  IF ~sid.ok THEN [self |-> s1, res |-> sid]
          ELSE
          LET s2 == [s1 EXCEPT !.session_id = Some(sid.v)]
              tok == Storage_from_vec(as_bytes(token.v), locks[2])
          IN  IF ~tok.ok THEN [self |-> s2, res |-> tok]
              ELSE [self |-> [s2 EXCEPT !.session_token = Some(tok.v)],
                    res |-> Ok(<<>>)]

\* A cause table that knows one OTP method only.
cause_error_one_method(cause) ==
  CASE cause = S_unknownpassword -> InvalidPassword
    [] cause = S_unkownemail -> InvalidUser
    [] cause \in {S_otprequired, S_otpfailed, S_googleauthrequired,
                  S_googleauthfailed, S_sesameotprequired, S_sesameotpfailed} ->
         OtpRequired("YubiKey")
    [] cause \in {S_outofbandrequired, S_multifactorresponsefailed} ->
         Unsupported(<<"Out-of-band auth requested: ">> \o cause)
    [] cause = S_gridrestricted ->
         Unsupported(<<"Grid-based auth requested: ">> \o cause)
    [] OTHER -> BadProtocol(<<"Unknown error: ">> \o cause)

\* The match on the cause attribute in Session::try_login.
cause_error(cause) ==
  CASE cause = S_unknownpassword -> InvalidPassword
    [] cause = S_unkownemail -> InvalidUser
    [] cause \in {S_otprequired, S_otpfailed} -> OtpRequired("YubiKey")
    [] cause \in {S_googleauthrequired, S_googleauthfailed} ->
         OtpRequired("GoogleAuthenticator")
    [] cause \in {S_sesameotprequired, S_sesameotpfailed} -> OtpRequired("Sesame")
    [] cause \in {S_outofbandrequired, S_multifactorresponsefailed} ->
         Unsupported(<<"Out-of-band auth requested: ">> \o cause)
    [] cause = S_gridrestricted ->
         Unsupported(<<"Grid-based auth requested: ">> \o cause)
    [] OTHER -> BadProtocol(<<"Unknown error: ">> \o cause)

\* A reply without the expected elements reported as an XML reader error.
bad_xml_as_reader_error == XmlError

bad_xml == BadProtocol(<<"Invalid XML received">>)

\* Session::try_login, given the network's reply to its login.php request.
\* panic is TRUE when the DOM builder panicked.
try_login(self, reply, locks) ==
  LET response == http_post(reply)
      xml == Dom_parse(reply.xml)
  IN  IF ~response.ok THEN [self |-> self, res |-> Err(response.e), panic |-> FALSE]
      ELSE IF xml.kind = "Err" THEN [self |-> self, res |-> Err(XmlError), panic |-> FALSE]
      ELSE IF xml.kind = "Panic" THEN [self |-> self, res |-> Err(NoError), panic |-> TRUE]
      ELSE IF Dom_element(xml.root, <<"response", "ok">>) # None
           THEN LET f == finalize_login(self,
                                        unwrap(Dom_element(xml.root, <<"response", "ok">>)),
                                        locks)
                IN  [self |-> f.self, res |-> f.res, panic |-> FALSE]
      ELSE IF Dom_element(xml.root, <<"response", "error">>) # None
           THEN LET e == unwrap(Dom_element(xml.root, <<"response", "error">>))
                IN  IF Element_attribute(e, "cause") = None
                    THEN [self |-> self, res |-> Err(bad_xml), panic |-> FALSE]
                    ELSE [self |-> self,
                          res |-> Err(cause_error(unwrap(Element_attribute(e, "cause")).value)),
                          panic |-> FALSE]
      ELSE [self |-> self, res |-> Err(bad_xml), panic |-> FALSE]

\* A loop that goes on after any failed round.
loop_continues_on_any_error(res) == ~res.ok

\* The condition of the while-let loop of Session::login.
loop_continues(res) == ~res.ok /\ res.e.kind = "OtpRequired"

\* A loop body that leaves the loop without an error when no code is given.
otp_declined_swallowed(m) == Ok(<<>>)

\* The body of the loop when the prompt returned None.
otp_declined(m) == Err(OtpRequired(m))

\* Parameters of a resubmission that carry the OTP field twice.
otp_params_doubled(params, m, otp) ==
  Append(Append(params, <<post_var(m), otp>>), <<post_var(m), otp>>)

\* The body of the loop when the prompt returned Some(otp): the fields of the
\* next login.php request.
otp_params(params, m, otp) == Append(params, <<post_var(m), otp>>)

\* Session::login after its loop, res being the result of the last
\* try_login: the decryption key is derived and stored.  locked is the
\* outcome of locking the key buffer.
login_after_loop(self, res, password, iterations, locked) ==
  LET key == kdf_crypto_key(self.username, password, iterations, locked)
  IN  IF ~key.ok THEN [self |-> self, res |-> key]
      ELSE [self |-> [self EXCEPT !.crypto_key = Some(key.v)], res |-> Ok(<<>>)]

(***************************************************************************)
(* The environment: the names a Session is created with, the passwords     *)
(* and one-time codes the secret provider hands over, and what the network *)
(* answers.                                                                *)
(***************************************************************************)
Usernames == { <<"B", "o", "b">>, <<"l", "p", "a", "s", "s", "-", "r", "s">> }

Passwords == { as_bytes(<<"p", "a", "s", "s", "w", "o", "r", "d">>),
               as_bytes(<<"s", "r", "-", "s", "s", "a", "p", "l">>) }

\* The one-time codes of the secret provider: a fresh one for each prompt of
\* a login call.
OtpCodes ==
  << as_bytes(<<"1", "2", "3", "4", "5", "6">>),
     as_bytes(<<"9">>),
     as_bytes(<<"6", "5", "4", "3", "2", "1">>),
     as_bytes(<<"0", "0", "7">>) >>

\* Replies to iterations.php.  The last body is one byte that is not UTF-8,
\* another ends with a line feed.
IterationBodies ==
  { as_bytes(<<"5", "0", "0", "0">>),
    as_bytes(<<"1", "0", "0", "0">>),
    as_bytes(<<"9", "9", "9">>),
    as_bytes(<<"0">>),
    <<>>,
    as_bytes(<<"1", "2", "x">>),
    as_bytes(<<"-", "1">>),
    as_bytes(<<"4", "2", "9", "4", "9", "6", "7", "2", "9", "6">>),
    as_bytes(<<"5", "0", "0", "0">>) \o <<10>>,
    as_bytes(<<"+", "1", "0", "0", "0">>),
    <<255>> }

\* No response at all, and responses with a status other than 200: a server
\* error, a missing page, a redirection (curl follows none unless told to).
TransportFailure == Reply(FALSE, 0, <<>>, <<>>)
HttpFailure == Reply(TRUE, 500, <<>>, <<>>)
HttpNotFound == Reply(TRUE, 404, <<>>, <<>>)
HttpRedirect == Reply(TRUE, 302, <<>>, <<>>)

IterationReplies ==
  { Reply(TRUE, HttpOk, b, <<>>) : b \in IterationBodies }
    \cup { TransportFailure, HttpFailure, HttpNotFound, HttpRedirect }

\* The event stream of <response><name attributes.../></response>.
ResponseDoc(name, attributes) ==
  << OtherEvent,
     StartElement("response", <<>>),
     StartElement(name, attributes),
     EndElement(name),
     EndElement("response"),
     OtherEvent >>

OkAttributes(uid, sessionid, token) ==
  << Attribute("uid", uid), Attribute("sessionid", sessionid),
     Attribute("token", token) >>

ErrorDoc(cause) ==
  ResponseDoc("error", << Attribute("message", <<"n", "o">>),
                          Attribute("cause", cause) >>)

LoginDocs ==
  { \* ok with every attribute the client reads
    ResponseDoc("ok", OkAttributes(<<"7">>, <<"S", "1">>, <<"T", "1">>)
                        \o <<Attribute("privatekeyenc", <<"K">>)>>),
    \* ok without the encrypted private key
    ResponseDoc("ok", OkAttributes(<<"8">>, <<"S", "2">>, <<"T", "2">>)),
    \* ok whose uid does not fit 32 bits
    ResponseDoc("ok", OkAttributes(<<"4", "2", "9", "4", "9", "6", "7", "2", "9", "6">>,
                                   <<"S", "3">>, <<"T", "3">>)
                        \o <<Attribute("privatekeyenc", <<"K">>)>>),
    \* ok without uid, without sessionid, without token
    ResponseDoc("ok", << Attribute("sessionid", <<"S", "4">>),
                         Attribute("token", <<"T", "4">>),
                         Attribute("privatekeyenc", <<"K">>) >>),
    ResponseDoc("ok", << Attribute("uid", <<"5">>),
                         Attribute("token", <<"T", "5">>),
                         Attribute("privatekeyenc", <<"K">>) >>),
    ResponseDoc("ok", << Attribute("uid", <<"6">>),
                         Attribute("sessionid", <<"S", "6">>),
                         Attribute("privatekeyenc", <<"K">>) >>),
    ErrorDoc(S_unknownpassword),
    ErrorDoc(S_unkownemail),
    ErrorDoc(S_unknownemail),
    ErrorDoc(S_otprequired),
    ErrorDoc(S_otpfailed),
    ErrorDoc(S_googleauthrequired),
    ErrorDoc(S_googleauthfailed),
    ErrorDoc(S_sesameotprequired),
    ErrorDoc(S_sesameotpfailed),
    ErrorDoc(S_outofbandrequired),
    ErrorDoc(S_multifactorresponsefailed),
    ErrorDoc(S_gridrestricted),
    ErrorDoc(S_weirdcause),
    \* error without a cause
    ResponseDoc("error", <<>>),
    \* neither ok nor error
    ResponseDoc("maintenance", <<>>),
    \* a document the XML reader rejects
    << OtherEvent, StartElement("response", <<>>), ErrorEvent >> }

LoginReplies ==
  { Reply(TRUE, HttpOk, <<>>, d) : d \in LoginDocs }
    \cup { TransportFailure, HttpFailure, HttpRedirect }

(***************************************************************************)
(* The state machine.                                                      *)
(***************************************************************************)
VARIABLES
  created_with,     \* the username handed to Session::new
  session,          \* the Session
  pc,               \* "idle", "returned", or where the running login call stands
  password,         \* login: the password argument (kept until the caller resumes)
  login_iterations, \* login: the local iterations (kept likewise)
  params,           \* login: the base fields (kept likewise)
  challenge,        \* login: the m of the loop (kept likewise)
  call,             \* what the running (or last) API call did so far
  result,           \* what the last API call returned
  iter_requested,   \* an iterations.php request was sent in an earlier call
  tls,              \* the last call of the certificate verification callback
  mem,              \* the heap and the locked pages of the process
  buf,              \* a Storage and where it stands in its life
  op,               \* the last operation on buf and its result
  dom               \* the last document parsed and the last lookup in it

vars == <<created_with, session, pc, password, login_iterations, params,
          challenge, call, result, iter_requested, tls, mem, buf, op, dom>>

\* The Storage whose operations are followed, and the rest.
storage_vars == <<mem, buf, op>>
parser_vars == <<dom>>
outside_session == <<tls, mem, buf, op, dom>>

\* Nothing allocated, no Storage built yet.
NoMemory == [heap |-> <<>>, locked |-> {}]
Unborn == [stage |-> "unborn", st |-> Storage_empty]
Alive(st) == [stage |-> "alive", st |-> st]
Dropped(st) == [stage |-> "dropped", st |-> st]
NoOp == [name |-> "none", arg |-> <<>>, res |-> [ok |-> TRUE, e |-> NoError]]
Op(name, arg, res) ==
  [name |-> name, arg |-> arg, res |-> [ok |-> res.ok, e |-> res.e]]

\* The record of a call of Dom::parse on a document and of the last call of
\* Dom::element on its result.
NoDom ==
  [stage |-> "none", markup |-> <<>>, events |-> <<>>, kind |-> "none",
   root |-> Element("[root]", <<>>, <<>>), path |-> <<>>, found |-> None]

\* The record of a call of verify_pinned_certificate: its arguments and what
\* it returned.
NoHandshake ==
  [stage |-> "none", preverify_ok |-> FALSE, chain |-> None, accepted |-> FALSE]
Verified(preverify_ok, chain, accepted) ==
  [stage |-> "verified", preverify_ok |-> preverify_ok, chain |-> chain,
   accepted |-> accepted]

NoRequest == Request("", <<>>)
NoReply == Reply(FALSE, 0, <<>>, <<>>)

\* The record of a direct call of a function of kdf: its arguments and the
\* key it returned, if any.
NoKdf == [user |-> <<>>, pass |-> <<>>, n |-> 0, key |-> None]
KdfDone(user, pass, n, res) ==
  [user |-> user, pass |-> pass, n |-> n,
   key |-> IF res.ok THEN Some(res.v) ELSE None]

\* The record of a call: what the session stored when the call began (uid,
\* session id, token), the iterations.php exchange (what was cached when
\* the call began, how many requests, the reply they got, whether an earlier
\* call had sent one), the number of login.php requests with the first and
\* the latest, the number of replies to them with the latest, the res it
\* gave and how many gave OtpRequired, the number of prompts with the latest
\* (method and answer) and how many were answered with a code, and the kind
\* of the latest event.
NewCall(sent, reply) ==
  [cached |-> session.iterations,
   stored |-> [uid |-> session.uid, session_id |-> session.session_id,
               session_token |-> session.session_token],
   iter_sent |-> Len(sent),
   iter_request |-> IF sent = <<>> THEN NoRequest ELSE sent[1],
   iter_reply |-> IF sent = <<>> THEN NoReply ELSE reply,
   iter_before |-> iter_requested,
   posts |-> 0, first_post |-> NoRequest, last_post |-> NoRequest,
   replies |-> 0, otp_replies |-> 0, last_reply |-> NoReply,
   res |-> [ok |-> TRUE, e |-> NoError],
   prompts |-> 0, supplied |-> 0, prompt_m |-> "", prompt_answer |-> None,
   kdf |-> NoKdf,
   last |-> IF sent = <<>> THEN "none" ELSE "iter_reply"]

\* The counts of a record stop at CountCap, which no call of at most MaxOtp
\* answered prompts reaches, so that the record of a call of any length
\* is one of finitely many.
CountCap == MaxOtp + 2
Counted(n) == IF n < CountCap THEN n + 1 ELSE n

Posted(c, req) ==
  [c EXCEPT !.posts = Counted(@),
            !.first_post = IF c.posts = 0 THEN req ELSE @,
            !.last_post = req,
            !.last = "post"]

Replied(c, reply, res) ==
  [c EXCEPT !.replies = Counted(@),
            !.otp_replies = IF ~res.ok /\ res.e.kind = "OtpRequired" THEN Counted(@) ELSE @,
            !.last_reply = reply,
            !.res = [ok |-> res.ok, e |-> res.e],
            !.last = "reply"]

Prompted(c, m, answer) ==
  [c EXCEPT !.prompts = Counted(@),
            !.supplied = IF answer # None THEN Counted(@) ELSE @,
            !.prompt_m = m,
            !.prompt_answer = answer,
            !.last = "prompt"]

Returned(name, res) ==
  [call |-> name, returned |-> TRUE, ok |-> res.ok, e |-> res.e]
Running(name) == [call |-> name, returned |-> FALSE, ok |-> FALSE, e |-> NoError]

Init ==
  /\ created_with \in Usernames
  /\ session = Session_new(created_with)
  /\ pc = "idle"
  /\ password = <<>>
  /\ login_iterations = 0
  /\ params = <<>>
  /\ challenge = ""
  /\ iter_requested = FALSE
  /\ call = NewCall(<<>>, NoReply)
  /\ result = Running("none")
  /\ tls = NoHandshake
  /\ mem = NoMemory
  /\ buf = Unborn
  /\ op = NoOp
  /\ dom = NoDom

\* A call of Session::iterations.
CallIterations(reply) ==
  /\ UNCHANGED outside_session
  /\ pc = "idle"
  /\ LET it == Session_iterations(session, reply)
     IN  /\ session' = it.self
         /\ call' = NewCall(it.sent, reply)
         /\ result' = Returned("iterations", it.res)
         /\ iter_requested' = (iter_requested \/ it.sent # <<>>)
  /\ pc' = "returned"
  /\ UNCHANGED <<created_with, password, login_iterations, params, challenge>>

\* A call of Session::login, up to the first login.php request or to the
\* failure that precedes it.
LoginStart(pw, iter_reply, locks) ==
  /\ UNCHANGED outside_session
  /\ pc = "idle"
  /\ \E b \in {login_begin(session, pw, iter_reply, locks)} :
         /\ session' = b.self
         /\ iter_requested' = (iter_requested \/ b.sent # <<>>)
         /\ IF b.res.ok
            THEN /\ pc' = "login_wait"
                 /\ password' = pw
                 /\ login_iterations' = b.iterations
                 /\ params' = b.res.v
                 /\ call' = Posted(NewCall(b.sent, iter_reply),
                                   Request("login.php", b.res.v))
                 /\ result' = Running("login")
            ELSE /\ pc' = "returned"
                 /\ password' = pw
                 /\ login_iterations' = b.iterations
                 /\ params' = <<>>
                 /\ call' = NewCall(b.sent, iter_reply)
                 /\ result' = Returned("login", b.res)
  /\ UNCHANGED <<created_with, challenge>>

\* The reply to the login.php request in flight: the rest of try_login,
\* then either the OTP challenge or the end of the loop and of login.
LoginReply(reply, locks) ==
  /\ UNCHANGED outside_session
  /\ pc = "login_wait"
  /\ \E t \in {try_login(session, reply, <<locks[1], locks[2]>>)} :
         IF t.panic
         THEN /\ pc' = "panicked"
              /\ call' = Replied(call, reply, t.res)
              /\ UNCHANGED <<session, password, login_iterations, params,
                             challenge, result>>
         ELSE IF loop_continues(t.res)
         THEN /\ pc' = "otp"
              /\ session' = t.self
              /\ challenge' = t.res.e.m
              /\ call' = Replied(call, reply, t.res)
              /\ UNCHANGED <<password, login_iterations, params, result>>
         ELSE \E f \in {login_after_loop(t.self, t.res, password,
                                           login_iterations, locks[3])} :
                  /\ pc' = "returned"
                  /\ session' = f.self
                  /\ result' = Returned("login", f.res)
                  /\ call' = Replied(call, reply, t.res)
                  /\ UNCHANGED <<password, login_iterations, params, challenge>>
  /\ UNCHANGED <<created_with, iter_requested>>

\* otp_prompt returned Some(otp): the next login.php request is sent.
OtpProvided(otp) ==
  /\ UNCHANGED outside_session
  /\ pc = "otp"
  /\ call.supplied < MaxOtp
  /\ pc' = "login_wait"
  /\ call' = Posted(Prompted(call, challenge, Some(otp)),
                    Request("login.php", otp_params(params, challenge, otp)))
  /\ UNCHANGED <<created_with, session, password, login_iterations, params,
                 challenge, result, iter_requested>>

\* otp_prompt returned None: login returns.
OtpDeclined ==
  /\ UNCHANGED outside_session
  /\ pc = "otp"
  /\ pc' = "returned"
  /\ result' = Returned("login", otp_declined(challenge))
  /\ call' = Prompted(call, challenge, None)
  /\ UNCHANGED <<created_with, session, password, login_iterations, params,
                 challenge, iter_requested>>

\* The caller has taken the result of the call: the Session is idle again,
\* the arguments and locals of the call are gone and its record is dropped.
CallerResumes ==
  /\ UNCHANGED outside_session
  /\ pc = "returned"
  /\ pc' = "idle"
  /\ call' = NewCall(<<>>, NoReply)
  /\ result' = Running("none")
  /\ password' = <<>>
  /\ login_iterations' = 0
  /\ params' = <<>>
  /\ challenge' = ""
  /\ UNCHANGED <<created_with, session, iter_requested>>

\* A call of kdf::crypto_key by a user of the library.
CryptoKeyCall(user, pass, n, locked) ==
  /\ UNCHANGED outside_session
  /\ pc = "idle"
  /\ LET r == kdf_crypto_key(user, pass, n, locked)
     IN  /\ call' = [NewCall(<<>>, NoReply) EXCEPT !.kdf = KdfDone(user, pass, n, r)]
         /\ result' = Returned("crypto_key", r)
  /\ pc' = "returned"
  /\ UNCHANGED <<created_with, session, password, login_iterations, params,
                 challenge, iter_requested>>

\* A call of kdf::login_key by a user of the library.
LoginKeyCall(user, pass, n, locks) ==
  /\ UNCHANGED outside_session
  /\ pc = "idle"
  /\ LET r == kdf_login_key(user, pass, n, locks)
     IN  /\ call' = [NewCall(<<>>, NoReply) EXCEPT !.kdf = KdfDone(user, pass, n, r)]
         /\ result' = Returned("login_key", r)
  /\ pc' = "returned"
  /\ UNCHANGED <<created_with, session, password, login_iterations, params,
                 challenge, iter_requested>>

\* Outcomes of the memory locks an action attempts, in call order: every
\* lock granted, or the OS denying one of them (the locks after a denied
\* one are not attempted).
Locks3 == { [i \in 1..3 |-> i # k] : k \in 0..3 }

\* The locks a login.php reply leads to.  finalize_login locks last, after
\* every other step of try_login has succeeded, so its two locks are
\* attempted only on a reply that succeeds when they are granted; the loop
\* goes on without a lock; any other reply leads to the lock of the
\* decryption key alone.
LoginLocks(reply) ==
  LET t == try_login(session, reply, <<TRUE, TRUE>>)
  IN  IF t.res.ok THEN Locks3
      ELSE IF t.panic \/ loop_continues(t.res) THEN { [i \in 1..3 |-> TRUE] }
      ELSE { [i \in 1..3 |-> TRUE], [i \in 1..3 |-> i # 3] }

\* What the provider can supply at the pending prompt.
OtpValues == { OtpCodes[call.supplied + 1] }

\* What the network can answer to the iterations.php request of a call; no
\* request is sent, hence nothing answered, once the count is cached.
IterationAnswers ==
  IF is_some(session.iterations) THEN {NoReply} ELSE IterationReplies

\* Arguments of the direct calls of kdf: the names as a Session holds them
\* and counts on both sides of the floor.
KdfUsers == { to_lowercase(u) : u \in Usernames }
KdfCounts == {0, 999, 1000, 5000}

Next ==
  \/ \E reply \in IterationAnswers : CallIterations(reply)
  \/ \E pw \in Passwords, reply \in IterationAnswers, locks \in Locks3 :
       LoginStart(pw, reply, locks)
  \/ \E reply \in LoginReplies : \E locks \in LoginLocks(reply) :
       LoginReply(reply, locks)
  \/ \E otp \in OtpValues : OtpProvided(otp)
  \/ OtpDeclined
  \/ \E user \in KdfUsers, pass \in Passwords, n \in KdfCounts, locked \in BOOLEAN :
       CryptoKeyCall(user, pass, n, locked)
  \/ \E user \in KdfUsers, pass \in Passwords, n \in KdfCounts, locks \in Locks3 :
       LoginKeyCall(user, pass, n, locks)
  \/ CallerResumes

Spec == Init /\ [][Next]_vars

\* otp_prompt returned Some(otp) at a prompt past the ones Spec follows: the
\* loop of login has no bound of its own.
OtpProvidedAgain(otp) ==
  /\ UNCHANGED outside_session
  /\ pc = "otp"
  /\ call.supplied >= MaxOtp
  /\ pc' = "login_wait"
  /\ call' = Posted(Prompted(call, challenge, Some(otp)),
                    Request("login.php", otp_params(params, challenge, otp)))
  /\ UNCHANGED <<created_with, session, password, login_iterations, params,
                 challenge, result, iter_requested>>

\* The provider's codes, as in OtpValues, go round once the fresh ones are
\* spent.
LaterOtpValues == { OtpCodes[(call.supplied % Len(OtpCodes)) + 1] }

\* The network call of a round returns: post gives try_login its reply.
NetworkReturns ==
  \E reply \in LoginReplies, locks \in Locks3 : LoginReply(reply, locks)

\* The provider call of a round returns, with a code or without.
ProviderReturns ==
  \/ \E otp \in LaterOtpValues : OtpProvided(otp) \/ OtpProvidedAgain(otp)
  \/ OtpDeclined

\* One call of login on a new Session, with rounds without end.
LoginNext ==
  \/ \E pw \in Passwords, reply \in IterationAnswers, locks \in Locks3 :
       LoginStart(pw, reply, locks)
  \/ NetworkReturns
  \/ ProviderReturns

\* login blocks in post and in otp_prompt, one at a time: a call that
\* returns is a step that is taken.
LiveSpec ==
  /\ Init
  /\ [][LoginNext]_vars
  /\ WF_vars(NetworkReturns)
  /\ WF_vars(ProviderReturns)

\* The session of Spec at rest, as the other specifications leave it.
session_vars == <<created_with, session, pc, password, login_iterations, params,
                  challenge, call, result, iter_requested>>

(***************************************************************************)
(* The certificate verification callback, called by the TLS library during *)
(* the handshake of a post.                                                *)
(***************************************************************************)
\* Longest certificate chain.
MaxChain == 3

\* Certificates: three of the pinned ones, one that is not pinned, one whose
\* digest differs from a pinned one by the case of a letter, and two with a
\* pinned digest whose public key cannot be extracted or encoded.
Certificates ==
  { Certificate(TRUE, TRUE, PINNED_CERTIFICATES[1]),
    Certificate(TRUE, TRUE, PINNED_CERTIFICATES[4]),
    Certificate(TRUE, TRUE, PINNED_CERTIFICATES[7]),
    Certificate(TRUE, TRUE, "47DEQpj8HBSa+/TImW+5JCeuQeRkm5NMpJWZG3hSuFU="),
    Certificate(TRUE, TRUE, "hxxqgxueCIU5TTLHob/bPbwcKOKw6DkfsTWYHbxbqTY="),
    Certificate(FALSE, FALSE, PINNED_CERTIFICATES[1]),
    Certificate(TRUE, FALSE, PINNED_CERTIFICATES[4]) }

\* What store.get_chain() can return: no chain, or a chain, leaf first.
Chains ==
  {None} \cup { Some(c) : c \in UNION { [1..n -> Certificates] : n \in 0..MaxChain } }

\* The TLS library calls the callback with the outcome of its own validation.
VerifyCallback(preverify_ok, chain) ==
  /\ tls.stage = "none"
  /\ tls' = Verified(preverify_ok, chain,
                     verify_pinned_certificate(preverify_ok, chain))
  /\ UNCHANGED <<session_vars, storage_vars, parser_vars>>

\* The handshake goes on or is aborted according to the answer.
HandshakeEnds ==
  /\ tls.stage = "verified"
  /\ tls' = NoHandshake
  /\ UNCHANGED <<session_vars, storage_vars, parser_vars>>

PinNext ==
  \/ \E preverify_ok \in BOOLEAN, chain \in Chains :
       VerifyCallback(preverify_ok, chain)
  \/ HandshakeEnds

PinSpec == Init /\ [][PinNext]_vars

(***************************************************************************)
(* The life of one Storage: built by one of its constructors, pushed to    *)
(* and written through, dropped.                                           *)
(***************************************************************************)
\* Largest length a Storage reaches.
MaxLen == 4
\* Most regions allocated over the life of a Storage.
MaxRegions == 4
\* Pages the allocator places the regions on.
NumPages == 2
Pages == 1..NumPages

\* Bytes handed to the constructors, capacities asked for, bytes pushed or
\* written.
ByteStrings == { <<>>, <<17>>, <<17, 34>> }
Capacities == {0, 1, 2}
Bytes == {85}

\* The outcome of a constructor becomes the state of buf.
Built(name, arg, f) ==
  /\ mem' = f.m
  /\ buf' = IF f.res.ok THEN Alive(unwrap(f.st)) ELSE Dropped(Storage_empty)
  /\ op' = Op(name, arg, f.res)
  /\ UNCHANGED <<session_vars, tls, parser_vars>>

Empty ==
  /\ buf.stage = "unborn"
  /\ Built("empty", <<>>, [m |-> mem, st |-> Some(Storage_empty), res |-> Ok(<<>>)])

FromVec(v, page, granted) ==
  /\ buf.stage = "unborn"
  /\ Built("from_vec", v, Storage_from_buf(mem, v, page, granted))

FromSlice(s, page, granted) ==
  /\ buf.stage = "unborn"
  /\ Built("from_slice", s, Storage_from_slice(mem, s, page, granted))

WithCapacity(cap, page, granted) ==
  /\ buf.stage = "unborn"
  /\ Built("with_capacity", <<cap>>, Storage_with_capacity(mem, cap, page, granted))

Push(b, page, granted) ==
  /\ buf.stage = "alive"
  /\ buf.st.len < MaxLen
  /\ buf.st.len = capacity(mem, buf.st) => Len(mem.heap) < MaxRegions
  /\ LET r == push(mem, buf.st, b, page, granted)
     IN  /\ mem' = r.m
         /\ buf' = Alive(r.st)
         /\ op' = Op("push", <<b>>, r.res)
  /\ UNCHANGED <<session_vars, tls, parser_vars>>

Write(i, b) ==
  /\ buf.stage = "alive"
  /\ i <= buf.st.len
  /\ mem' = deref_mut_write(mem, buf.st, i, b)
  /\ op' = Op("deref_mut", <<b>>, Ok(<<>>))
  /\ UNCHANGED <<session_vars, tls, buf, parser_vars>>

Drop ==
  /\ buf.stage = "alive"
  /\ mem' = drop(mem, buf.st)
  /\ buf' = Dropped(buf.st)
  /\ op' = Op("drop", <<>>, Ok(<<>>))
  /\ UNCHANGED <<session_vars, tls, parser_vars>>

\* The process goes on to another Storage.
Forgotten ==
  /\ buf.stage = "dropped"
  /\ mem' = NoMemory
  /\ buf' = Unborn
  /\ op' = NoOp
  /\ UNCHANGED <<session_vars, tls, parser_vars>>

StorageNext ==
  \/ Empty
  \/ \E v \in ByteStrings, page \in Pages, granted \in BOOLEAN :
       FromVec(v, page, granted)
  \/ \E s \in ByteStrings, page \in Pages, granted \in BOOLEAN :
       FromSlice(s, page, granted)
  \/ \E cap \in Capacities, page \in Pages, granted \in BOOLEAN :
       WithCapacity(cap, page, granted)
  \/ \E b \in Bytes, page \in Pages, granted \in BOOLEAN : Push(b, page, granted)
  \/ \E i \in 1..MaxLen, b \in Bytes : Write(i, b)
  \/ Drop
  \/ Forgotten

StorageSpec == Init /\ [][StorageNext]_vars

(***************************************************************************)
(* The parser of the replies: Dom::parse on a document, then Dom::element  *)
(* on the tree.                                                            *)
(***************************************************************************)
\* Most tokens of an enumerated document, most components of a path.
MaxTokens == 3
MaxPath == 3

\* Every sequence over S of at most n items.
SeqsUpTo(S, n) == UNION { [1..k -> S] : k \in 0..n }

\* Documents: every short run of opening and closing tags, balanced or not,
\* and the replies the lookups are made in.
TagTokens == { Open("ok", <<>>), Close("ok"), Open("y", <<>>), Close("y") }

OkReply ==
  << Open("response", <<>>),
       Open("ok", << Attribute("uid", <<"7">>), Attribute("sessionid", <<"S">>) >>),
       Close("ok"),
     Close("response") >>

\* Two siblings of the same name: the first holds x, the second holds y.
TwinReply ==
  << Open("response", <<>>), Text,
       Open("ok", <<Attribute("uid", <<"1">>), Attribute("uid", <<"2">>)>>),
         Open("x", <<>>), Close("x"),
       Close("ok"),
       Open("ok", <<Attribute("uid", <<"3">>)>>),
         Open("y", <<>>), Close("y"),
       Close("ok"),
     Close("response") >>

\* A reply cut short, and a reply closed by the wrong tag.
TruncatedReply == SubSeq(OkReply, 1, 2)
CrossedReply == << Open("response", <<>>), Open("ok", <<>>), Close("response") >>

Markups ==
  SeqsUpTo(TagTokens, MaxTokens)
    \cup {OkReply, TwinReply, TruncatedReply, CrossedReply}

Paths == SeqsUpTo({"response", "ok", "y"}, MaxPath)

\* The call of Dom::parse that builds the Dom.
Parse(markup, strict) ==
  /\ dom.stage = "none"
  /\ \E events \in {EventReader(markup, strict)} :
       \E parsed \in {Dom_parse(events)} :
         dom' = [stage |-> "parsed", markup |-> markup, events |-> events,
                 kind |-> parsed.kind,
                 root |-> IF parsed.kind = "Ok" THEN parsed.root ELSE NoDom.root,
                 path |-> <<>>, found |-> None]
  /\ UNCHANGED <<session_vars, tls, storage_vars>>

\* A call of Dom::element on the tree of the last document.
ElementAt(path) ==
  /\ dom.kind = "Ok"
  /\ dom' = [dom EXCEPT !.stage = "looked", !.path = path,
                        !.found = Dom_element(dom.root, path)]
  /\ UNCHANGED <<session_vars, tls, storage_vars>>

XmlNext ==
  \/ \E markup \in Markups, strict \in BOOLEAN : Parse(markup, strict)
  \/ \E path \in Paths : ElementAt(path)

XmlSpec == Init /\ [][XmlNext]_vars

(***************************************************************************)
(* Properties of the login protocol.                                       *)
(***************************************************************************)
\* The call that just returned is a login whose last event is the reply to
\* its last login.php request.
LoginEndedOnReply ==
  /\ pc = "returned"
  /\ result.call = "login"
  /\ call.last = "reply"

\* C1: when the last login.php round of a login call ends in a failure other
\* than OtpRequired, login returns that failure and never success.
C1_RoundFailureReturned ==
  (LoginEndedOnReply /\ ~call.res.ok)
    => (~result.ok /\ result.e = call.res.e)

\* C2: session_id is present exactly when session_token is present.
C2_IdIffToken ==
  is_some(session.session_id) <=> is_some(session.session_token)

\* The attributes of the response/ok element of a login.php reply that
\* arrived with status 200 (<<>> when it has none), and the value of one.
OkElements(reply) ==
  IF reply.transport /\ reply.status = 200
  THEN SelectSeq(reply.xml, LAMBDA ev : ev.t = "StartElement" /\ ev.name = "ok")
  ELSE <<>>
AttrValues(attributes, name) ==
  SelectSeq(attributes, LAMBDA a : a.name = name)
HasDecimalUidSidToken(reply) ==
  /\ OkElements(reply) # <<>>
  /\ AttrValues(OkElements(reply)[1].attributes, "uid") # <<>>
  /\ LET uid == AttrValues(OkElements(reply)[1].attributes, "uid")[1].value
     IN  uid # <<>> /\ \A i \in 1..Len(uid) : IsDigit(uid[i])
  /\ AttrValues(OkElements(reply)[1].attributes, "sessionid") # <<>>
  /\ AttrValues(OkElements(reply)[1].attributes, "token") # <<>>

\* C3: a reply with response/ok carrying a decimal uid, sessionid and token
\* makes login succeed and leaves the session authenticated with these
\* values and with the crypto key of (username, password, cached iterations).
C3_OkReplyAuthenticates ==
  (LoginEndedOnReply /\ HasDecimalUidSidToken(call.last_reply))
    => LET attributes == OkElements(call.last_reply)[1].attributes
       IN  /\ result.ok
           /\ is_authenticated(session)
           /\ session.session_id
                = Some(as_bytes(AttrValues(attributes, "sessionid")[1].value))
           /\ session.session_token
                = Some(as_bytes(AttrValues(attributes, "token")[1].value))
           /\ is_some(session.uid)
           /\ fmt_u32(unwrap(session.uid))
                = strip_zeros(AttrValues(attributes, "uid")[1].value)
           /\ is_some(session.iterations)
           /\ session.crypto_key
                = Some(pbkdf2_hmac(password, as_bytes(session.username),
                                   unwrap(session.iterations)))

\* The OtpMethod a login.php reply demands according to the cause table:
\* the cause attribute of its response/error element.
ErrorElements(reply) ==
  IF reply.transport /\ reply.status = 200
  THEN SelectSeq(reply.xml, LAMBDA ev : ev.t = "StartElement" /\ ev.name = "error")
  ELSE <<>>
DemandedMethod(reply) ==
  LET causes == IF ErrorElements(reply) = <<>> THEN <<>>
                ELSE AttrValues(ErrorElements(reply)[1].attributes, "cause")
      cause == IF causes = <<>> THEN <<>> ELSE causes[1].value
  IN  CASE cause \in {S_otprequired, S_otpfailed} -> "YubiKey"
        [] cause \in {S_googleauthrequired, S_googleauthfailed} -> "GoogleAuthenticator"
        [] cause \in {S_sesameotprequired, S_sesameotpfailed} -> "Sesame"
        [] OTHER -> "none"

\* The wire name of the one-time code of each method.
WireName(m) ==
  CASE m = "Sesame" -> "sesameotp"
    [] m = "YubiKey" -> "otp"
    [] m = "GoogleAuthenticator" -> "otp"

\* The provider has just declined the prompt of a login call.
ProviderDeclined ==
  /\ result.call = "login"
  /\ call.last = "prompt"
  /\ call.prompt_answer = None

\* C4: when the provider yields no value for the demanded method m, login
\* returns OtpRequired(m) for that m and no request follows the prompt: the
\* login.php requests of the call are the first one and one per code the
\* provider supplied before.
C4_DeclinedOtpEndsLogin ==
  ProviderDeclined
    => /\ pc = "returned"
       /\ DemandedMethod(call.last_reply) \in OtpMethods
       /\ call.prompt_m = DemandedMethod(call.last_reply)
       /\ ~result.ok
       /\ result.e = OtpRequired(DemandedMethod(call.last_reply))
       /\ call.posts = 1 + call.supplied
       /\ call.replies = call.posts

C4_Witness ==
  /\ ProviderDeclined
  /\ pc = "returned"
  /\ call.prompt_m = "Sesame"
  /\ call.supplied = 1
  /\ result.e = OtpRequired("Sesame")

\* C5: after a reply that maps to OtpRequired(m) the provider is called with
\* that m, the method of the latest reply; when it yields a value v the next
\* request is a login.php POST with the field (wire name of m, v).
C5_PromptAndResubmission ==
  /\ pc = "otp" => /\ call.last = "reply"
                   /\ DemandedMethod(call.last_reply) \in OtpMethods
                   /\ challenge = DemandedMethod(call.last_reply)
  /\ (call.last = "reply" /\ DemandedMethod(call.last_reply) \in OtpMethods)
       => pc = "otp"
  /\ call.last = "prompt" => call.prompt_m = DemandedMethod(call.last_reply)
  /\ (call.last = "post" /\ call.prompts > 0)
       => /\ call.prompt_m = DemandedMethod(call.last_reply)
          /\ call.prompt_m \in OtpMethods
          /\ call.prompt_answer # None
          /\ call.last_post.page = "login.php"
          /\ \E i \in 1..Len(call.last_post.fields) :
               call.last_post.fields[i]
                 = <<WireName(call.prompt_m), unwrap(call.prompt_answer)>>

C5_Witness ==
  /\ call.last = "post"
  /\ call.supplied = 2
  /\ call.prompt_m = "Sesame"
  /\ call.prompt_answer = Some(OtpCodes[2])
  /\ \E i \in 1..Len(call.last_post.fields) :
       call.last_post.fields[i] = <<"sesameotp", OtpCodes[2]>>

\* C6: in a login call the number of login.php requests is 1 plus the number
\* of codes the provider supplied; the provider is called once per
\* OtpRequired reply; a round that fails otherwise ends the call with no
\* further request; and the call never ends on an OtpRequired reply, only
\* on another reply or on the provider declining.
C6_OnlyOtpRetries ==
  (result.call = "login" /\ call.posts > 0)
    => /\ call.posts = 1 + call.supplied
       /\ call.prompts = call.otp_replies - (IF pc = "otp" THEN 1 ELSE 0)
       /\ call.replies = call.posts - (IF pc = "login_wait" THEN 1 ELSE 0)
       /\ (call.replies > 0 /\ ~call.res.ok /\ call.res.e.kind # "OtpRequired")
            => (pc = "returned" /\ call.last = "reply")
       /\ pc = "returned"
            => \/ call.last = "prompt" /\ call.prompt_answer = None
               \/ call.last = "reply" /\ ~(~call.res.ok /\ call.res.e.kind = "OtpRequired")

C6_Witness ==
  /\ pc = "returned"
  /\ result.call = "login"
  /\ call.posts = 3
  /\ call.supplied = 2
  /\ call.prompts = 2
  /\ call.last = "reply"
  /\ ~call.res.ok
  /\ call.res.e.kind = "InvalidPassword"

(***************************************************************************)
(* Properties of the iteration count.                                      *)
(***************************************************************************)
\* C7 as stated: over the lifetime of a Session at most one iterations.php
\* request is sent.  The requests counted are those of the latest call and
\* one for the earlier calls if any of them sent one.
C7_AtMostOneRequestEver ==
  call.iter_sent + (IF call.iter_before THEN 1 ELSE 0) <= 1

\* C7 as amended: a call sends at most one iterations.php request, and none
\* once a value is cached; the value is cached exactly by a request that
\* succeeded, so a value, once cached, is never fetched again, while a
\* failed fetch leaves nothing cached and the next need asks again.
C7_NoRequestOnceCached ==
  /\ call.iter_sent <= 1
  /\ is_some(call.cached) => (call.iter_sent = 0 /\ session.iterations = call.cached)
  /\ (is_some(session.iterations) /\ call.cached = None /\ pc # "idle")
       => call.iter_sent = 1
  /\ (iter_requested /\ pc = "idle" /\ session.iterations = None)
       => \A reply \in IterationReplies :
            Session_iterations(session, reply).sent # <<>>

C7_Witness ==
  /\ pc = "returned"
  /\ result.call = "login"
  /\ call.iter_before
  /\ is_some(call.cached)
  /\ call.iter_sent = 0
  /\ call.posts > 0

\* A body of ASCII decimal digits, and the digits of a body.
IsDecimalBody(body) ==
  body # <<>> /\ \A i \in 1..Len(body) : body[i] >= 48 /\ body[i] <= 57
BodyDigits(body) == [i \in 1..Len(body) |-> Digits[body[i] - 47]]
IsPositiveDecimalBody(body) ==
  IsDecimalBody(body) /\ \E i \in 1..Len(body) : body[i] # 48

\* The call that just returned sent an iterations.php request that was
\* answered with status 200.
FetchAnswered ==
  /\ pc = "returned"
  /\ call.iter_sent > 0
  /\ call.iter_reply.transport
  /\ call.iter_reply.status = 200

\* C8 as stated: a body that is not a valid positive decimal integer (the
\* body "0" included) makes the fetch fail with a protocol error and
\* nothing is cached.
C8_NonPositiveBodyRejected ==
  (FetchAnswered /\ ~IsPositiveDecimalBody(call.iter_reply.body))
    => /\ session.iterations = None
       /\ ~result.ok
       /\ result.e.kind = "BadProtocol"

\* What u32::from_str takes: decimal digits after an optional "+", the
\* value at most 4294967295.
IsU32Body(body) ==
  LET d == IF body # <<>> /\ body[1] = 43 THEN Tail(body) ELSE body
  IN  /\ IsDecimalBody(d)
      /\ ~exceeds_u32(BodyDigits(d))
U32BodyDigits(body) ==
  strip_zeros(BodyDigits(IF body[1] = 43 THEN Tail(body) ELSE body))

\* C8 as amended: the fetch fails with a protocol error, and nothing is
\* cached, whenever the body is not a decimal integer of 32 bits without
\* sign (not UTF-8, empty, a character that is no digit, a value above
\* 4294967295); every other body is accepted and its value cached, the
\* body "0" included, which caches 0.
C8_NonU32BodyRejected ==
  FetchAnswered
    => IF IsU32Body(call.iter_reply.body)
       THEN /\ is_some(session.iterations)
            /\ strip_zeros(fmt_u32(unwrap(session.iterations)))
                 = U32BodyDigits(call.iter_reply.body)
            /\ result.call = "iterations" => result.ok
       ELSE /\ session.iterations = None
            /\ ~result.ok
            /\ result.e.kind = "BadProtocol"

C8_Witness ==
  /\ FetchAnswered
  /\ call.iter_reply.body = <<255>>
  /\ result.e = BadProtocol(<<"Non-UTF8 string received">>)
  /\ session.iterations = None

(***************************************************************************)
(* Properties of the key derivations.                                      *)
(***************************************************************************)
\* C9: with an iteration count below 1000, whatever the username and the
\* password, kdf::login_key and kdf::crypto_key fail with Unsupported and
\* return no key; a login whose iteration count is below 1000 fails with
\* that error without having sent a login.php request, so a login that has
\* sent one runs with a count of at least 1000.
C9_LowCountUnsupported ==
  /\ (pc = "returned" /\ result.call \in {"crypto_key", "login_key"}
        /\ call.kdf.n < 1000)
       => /\ ~result.ok
          /\ result.e.kind = "Unsupported"
          /\ call.kdf.key = None
  /\ (pc = "returned" /\ result.call = "login"
        /\ is_some(session.iterations) /\ unwrap(session.iterations) < 1000)
       => /\ ~result.ok
          /\ result.e.kind = "Unsupported"
          /\ call.posts = 0
          /\ session.crypto_key = None
  /\ call.posts > 0
       => (is_some(session.iterations) /\ unwrap(session.iterations) >= 1000)

C9_Witness ==
  /\ pc = "returned"
  /\ result.call = "login"
  /\ call.iter_sent = 1
  /\ session.iterations = Some(999)
  /\ result.e = Unsupported(<<"Iteration count too low (", "9", "9", "9", ")">>)
  /\ call.posts = 0

\* The requests of the current call, and the values of the fields of a
\* request under a name.
SentRequests ==
  {call.iter_request, call.first_post, call.last_post} \ {NoRequest}
FieldsNamed(req, names) ==
  { req.fields[i][2] : i \in { j \in 1..Len(req.fields) : req.fields[j][1] \in names } }
FieldNames(req) == { req.fields[i][1] : i \in 1..Len(req.fields) }

\* Every crypto_key of the usernames and passwords in play (PBKDF2 of the
\* password salted with the username), and every key with its encoding.
CryptoKeys ==
  { r.out : r \in { t \in Pbkdf2Table : t.salt \in { as_bytes(u) : u \in KdfUsers } } }
CryptoKeyForms == CryptoKeys \cup { hex_encode(k) : k \in CryptoKeys }
KeyForms ==
  { r.out : r \in Pbkdf2Table } \cup { hex_encode(r.out) : r \in Pbkdf2Table }

\* The login key of the login in progress: one more PBKDF2 round over the
\* crypto_key, salted with the password.
LoginKeyInPlay ==
  pbkdf2_hmac(pbkdf2_hmac(password, as_bytes(session.username), login_iterations),
              password, 1)

\* C10: no field of a request the session sends (iterations.php, first
\* login.php request, OTP resubmission) holds a crypto_key, raw or
\* hex-encoded, the crypto_key the session stores included; the hash field of
\* every login.php request is the hex-encoded login key, and no other field
\* holds any key.
C10_CryptoKeyNeverSent ==
  \A req \in SentRequests :
    /\ \A v \in FieldsNamed(req, FieldNames(req)) :
         /\ v \notin CryptoKeyForms
         /\ is_some(session.crypto_key)
              => (v # unwrap(session.crypto_key)
                    /\ v # hex_encode(unwrap(session.crypto_key)))
    /\ \A v \in FieldsNamed(req, FieldNames(req) \ {"hash"}) : v \notin KeyForms
    /\ req.page = "login.php"
         => FieldsNamed(req, {"hash"}) = { hex_encode(LoginKeyInPlay) }
    /\ req.page = "iterations.php" => "hash" \notin FieldNames(req)

C10_Witness ==
  /\ pc = "returned"
  /\ result.call = "login"
  /\ call.iter_sent = 1
  /\ call.posts = 2
  /\ call.first_post # call.last_post
  /\ is_some(session.crypto_key)

(***************************************************************************)
(* Properties of the transport.                                            *)
(***************************************************************************)
\* What post owes for a reply according to C19: the response for status 200
\* (so no transport or status failure), HttpError with the code for any
\* other status, a transport failure when no response arrived.
PostOwes(reply, res) ==
  IF ~reply.transport THEN ~res.ok /\ res.e.kind = "CurlError"
  ELSE IF reply.status # 200 THEN ~res.ok /\ res.e = HttpError(reply.status)
  ELSE res.ok \/ res.e.kind \notin {"CurlError", "HttpError"}

\* C19: post gives the response only for status 200; every other status c,
\* 4xx and 5xx included, gives HttpError(c) and every transport failure a
\* transport failure, the two never conflated.  Stated of the iterations.php
\* exchange of a call that ended with it and of the latest login.php round.
C19_StatusNeverConflated ==
  /\ (pc = "returned" /\ call.iter_sent > 0 /\ call.posts = 0)
       => PostOwes(call.iter_reply, result)
  /\ call.last = "reply" => PostOwes(call.last_reply, call.res)

(***************************************************************************)
(* Properties of the certificate pinning.                                  *)
(***************************************************************************)
\* The pinned digests as a set, and the certificates of a chain whose
\* public key can be extracted and has a pinned digest.
PinnedSet == { PINNED_CERTIFICATES[i] : i \in 1..Len(PINNED_CERTIFICATES) }
PinnedPositions(chain) ==
  IF chain = None THEN {}
  ELSE { i \in 1..Len(unwrap(chain)) :
           /\ unwrap(chain)[i].pkey
           /\ unwrap(chain)[i].der
           /\ unwrap(chain)[i].encoded \in PinnedSet }

\* C11: when the standard validation failed (preverify_ok is false) the
\* callback rejects, even if a certificate of the chain is pinned.
C11_PinningNeverRelaxes ==
  (tls.stage = "verified" /\ ~tls.preverify_ok) => ~tls.accepted

C11_Witness ==
  /\ tls.stage = "verified"
  /\ ~tls.preverify_ok
  /\ 1 \in PinnedPositions(tls.chain)
  /\ ~tls.accepted

\* C12: when the standard validation passed, the callback accepts exactly
\* when the chain is not empty and a certificate at some position of it has
\* an extractable public key whose digest is one of the 7 pinned ones; no
\* chain, an empty chain and a chain without such a certificate are
\* rejected, and a certificate without extractable key is skipped.
C12_AcceptsIffPinned ==
  /\ Len(PINNED_CERTIFICATES) = 7
  /\ Cardinality(PinnedSet) = 7
  /\ (tls.stage = "verified" /\ tls.preverify_ok)
       => (tls.accepted <=> PinnedPositions(tls.chain) # {})

C12_Witness ==
  /\ tls.stage = "verified"
  /\ tls.preverify_ok
  /\ tls.chain # None
  /\ Len(unwrap(tls.chain)) = 3
  /\ ~unwrap(tls.chain)[1].pkey
  /\ PinnedPositions(tls.chain) = {3}
  /\ tls.accepted

(***************************************************************************)
(* Properties of the interpretation of a login.php reply.  The result of a *)
(* round is call.res, the reply it interprets call.last_reply.             *)
(***************************************************************************)


\* The reply arrived with status 200 and its document was parsed.
Parsed(reply) ==
  /\ reply.transport
  /\ reply.status = 200
  /\ \A i \in 1..Len(reply.xml) : reply.xml[i].t # "Error"

\* The cause attributes of the response/error element of a reply.
Causes(reply) ==
  IF ErrorElements(reply) = <<>> THEN <<>>
  ELSE AttrValues(ErrorElements(reply)[1].attributes, "cause")
HasCause(reply) == Parsed(reply) /\ OkElements(reply) = <<>> /\ Causes(reply) # <<>>
CauseOf(reply) == Causes(reply)[1].value

OtpCauses ==
  { S_otprequired, S_otpfailed, S_googleauthrequired, S_googleauthfailed,
    S_sesameotprequired, S_sesameotpfailed }

\* A round has just interpreted a reply whose error element has a cause.
RoundWithCause == call.last = "reply" /\ HasCause(call.last_reply)

\* C13: for an error reply with a cause the result of the round follows the
\* cause table for every listed cause, and the OTP challenge is entered for
\* the six OTP causes and for nothing else.
C13_CauseTable ==
  /\ RoundWithCause =>
       LET cause == CauseOf(call.last_reply)
           e == call.res.e
       IN  /\ ~call.res.ok
           /\ cause = S_unknownpassword => e = InvalidPassword
           /\ cause \in {S_otprequired, S_otpfailed} => e = OtpRequired("YubiKey")
           /\ cause \in {S_googleauthrequired, S_googleauthfailed}
                => e = OtpRequired("GoogleAuthenticator")
           /\ cause \in {S_sesameotprequired, S_sesameotpfailed}
                => e = OtpRequired("Sesame")
           /\ cause \in {S_outofbandrequired, S_multifactorresponsefailed}
                => (e.kind = "Unsupported" /\ Head(e.text) = "Out-of-band auth requested: ")
           /\ cause = S_gridrestricted
                => (e.kind = "Unsupported" /\ Head(e.text) = "Grid-based auth requested: ")
           /\ (pc = "otp") <=> (cause \in OtpCauses)
  /\ pc = "otp" => RoundWithCause

C13_Witness ==
  /\ RoundWithCause
  /\ CauseOf(call.last_reply) = S_googleauthfailed
  /\ call.res.e = OtpRequired("GoogleAuthenticator")
  /\ pc = "otp"
  /\ call.posts = 2

\* The causes the table lists, the unknown-email cause in both spellings.
ListedCauses ==
  OtpCauses \cup { S_unknownpassword, S_unkownemail, S_unknownemail,
                   S_outofbandrequired, S_multifactorresponsefailed,
                   S_gridrestricted }

\* text contains part, character for character.
ContainsText(text, part) ==
  \E i \in 1..Len(text) :
    /\ i + Len(part) - 1 <= Len(text)
    /\ SubSeq(text, i, i + Len(part) - 1) = part

\* C14: an error reply whose cause the table does not list never crashes
\* and is never ignored: the login it ends fails with BadProtocol, whose
\* text contains the cause as received.
C14_UnlistedCauseSurfaces ==
  (RoundWithCause /\ CauseOf(call.last_reply) \notin ListedCauses)
    => /\ pc = "returned"
       /\ ~result.ok
       /\ result.e.kind = "BadProtocol"
       /\ ContainsText(result.e.text, CauseOf(call.last_reply))

\* C15: an error reply whose cause is "unknownemail" gives the round the
\* result InvalidUser, not BadProtocol.
C15_UnknownEmailIsInvalidUser ==
  (RoundWithCause /\ CauseOf(call.last_reply) = S_unknownemail)
    => (~call.res.ok /\ call.res.e = InvalidUser)

\* What the session stores is what it stored when the call began.
StoredUnchanged ==
  /\ session.uid = call.stored.uid
  /\ session.session_id = call.stored.session_id
  /\ session.session_token = call.stored.session_token

\* A reply that parses and has neither response/ok nor response/error, or
\* response/error without a cause.
NeitherOkNorCause(reply) ==
  /\ Parsed(reply)
  /\ OkElements(reply) = <<>>
  /\ Causes(reply) = <<>>

\* C16: a reply that parses but has neither response/ok nor response/error,
\* or response/error without cause, gives the round a protocol error that
\* ends the login (no prompt, no further request), and the session stores
\* what it stored before: unauthenticated, it stays so.
C16_NeitherOkNorCauseIsMalformed ==
  (call.last = "reply" /\ NeitherOkNorCause(call.last_reply))
    => /\ ~call.res.ok
       /\ call.res.e.kind = "BadProtocol"
       /\ pc = "returned"
       /\ StoredUnchanged
       /\ call.stored.session_id = None => ~is_authenticated(session)

C16_Witness ==
  /\ call.last = "reply"
  /\ NeitherOkNorCause(call.last_reply)
  /\ ErrorElements(call.last_reply) = <<>>
  /\ call.res.e = BadProtocol(<<"Invalid XML received">>)
  /\ ~is_authenticated(session)

\* C17: a reply whose ok element has uid, sessionid and token but no
\* privatekeyenc authenticates the session like one that has it: the round
\* succeeds and the session stores the values.
C17_PrivateKeyOptional ==
  (call.last = "reply" /\ HasDecimalUidSidToken(call.last_reply)
     /\ AttrValues(OkElements(call.last_reply)[1].attributes, "privatekeyenc") = <<>>)
    => /\ call.res.ok
       /\ is_authenticated(session)
       /\ session.session_id
            = Some(as_bytes(AttrValues(OkElements(call.last_reply)[1].attributes,
                                       "sessionid")[1].value))

\* The first of uid, sessionid, token the ok element of a reply lacks.
Required == <<"uid", "sessionid", "token">>
MissingRequired(reply) ==
  { i \in 1..Len(Required) :
      AttrValues(OkElements(reply)[1].attributes, Required[i]) = <<>> }
FirstMissing(reply) ==
  Required[CHOOSE i \in MissingRequired(reply) :
             \A j \in MissingRequired(reply) : i <= j]

\* C18: when response/ok lacks uid, sessionid or token the round fails with
\* a protocol error that names the missing attribute, the login ends, and
\* the session stores none of uid, session id and token.
C18_MissingRequiredAttribute ==
  (call.last = "reply" /\ Parsed(call.last_reply)
     /\ OkElements(call.last_reply) # <<>>
     /\ MissingRequired(call.last_reply) # {})
    => /\ ~call.res.ok
       /\ call.res.e.kind = "BadProtocol"
       /\ ContainsText(call.res.e.text, <<FirstMissing(call.last_reply)>>)
       /\ pc = "returned"
       /\ StoredUnchanged

C18_Witness ==
  /\ call.last = "reply"
  /\ Parsed(call.last_reply)
  /\ OkElements(call.last_reply) # <<>>
  /\ MissingRequired(call.last_reply) = {3}
  /\ call.res.e = BadProtocol(<<"Missing XML attribute '", "token", "'">>)
  /\ session.uid = None
  /\ session.session_id = None

\* The regions of the heap.
Regions == 1..Len(mem.heap)

\* The page of the current backing region is locked in the eyes of the OS.
BackingLocked ==
  /\ buf.st.storage # 0
  /\ mem.heap[buf.st.storage].page \in mem.locked

\* C20: while a Storage is alive and its length is greater than 0 its current
\* backing region is memory-locked; no region is unlocked twice; and once the
\* Storage is dropped every region it locked has been unlocked exactly once
\* and no page stays locked.
C20_LockedWhileNonEmpty ==
  /\ (buf.stage = "alive" /\ buf.st.len > 0) => BackingLocked
  /\ \A r \in Regions : mem.heap[r].munlocks <= 1
  /\ buf.stage = "dropped" =>
       /\ \A r \in Regions :
            mem.heap[r].mlocks > 0 => mem.heap[r].munlocks = 1
       /\ mem.locked = {}

\* Every byte of the sequence is zero.
AllZero(bytes) == \A i \in 1..Len(bytes) : bytes[i] = 0

\* C21: on the destruction of a Storage its whole backing region, all of its
\* capacity, is overwritten with zero bytes, and the zero-fill comes before
\* the unlock call: a region on which munlock was called held zero bytes
\* only, over its whole capacity, when libc::munlock was called, and holds
\* zero bytes only ever after.
C21_ZeroedBeforeUnlock ==
  /\ \A r \in Regions :
       mem.heap[r].munlocks > 0 =>
         /\ Len(mem.heap[r].at_unlock) = Len(mem.heap[r].bytes)
         /\ AllZero(mem.heap[r].at_unlock)
         /\ AllZero(mem.heap[r].bytes)
  /\ (buf.stage = "dropped" /\ buf.st.storage # 0) =>
       mem.heap[buf.st.storage].munlocks > 0

\* A Storage that held bytes, all of them non-zero, in a region larger than
\* its length has been dropped.
C21_Witness ==
  /\ buf.stage = "dropped"
  /\ op.name = "drop"
  /\ buf.st.len > 0
  /\ capacity(mem, buf.st) > buf.st.len

\* C22: the zero step runs on every exit path of the construction of a
\* Storage: a construction from bytes that fails because the OS denies the
\* lock returns the memory-lock failure, and every region released by then,
\* the bytes handed in among them, holds zero bytes only.
C22_ZeroedOnFailedConstruction ==
  (op.name \in {"from_vec", "from_slice", "with_capacity"} /\ ~op.res.ok) =>
    /\ op.res.e = IoError
    /\ \A r \in Regions : ~mem.heap[r].live => AllZero(mem.heap[r].bytes)

\* The step is a push on a full Storage, one that needs more capacity.
PushThatGrows ==
  /\ buf.stage = "alive"
  /\ op'.name = "push"
  /\ buf.st.len = capacity(mem, buf.st)

\* C23: a push that needs more capacity never reallocates silently.  When it
\* succeeds the new region was locked while it held zero bytes only, so no
\* byte was copied into it before the lock, and the old region was cleared
\* over its whole capacity, then unlocked while still allocated, then
\* released.  When the lock of the new region is denied the push returns
\* the lock failure and the Storage, the content of its region, the other
\* regions and the locked pages are as before.
C23_ReallocationDiscipline ==
  [][PushThatGrows =>
       IF op'.res.ok
       THEN LET new == buf'.st.storage
                old == buf.st.storage
            IN  /\ new # 0 /\ new # old
                /\ mem'.heap[new].mlocks = 1
                /\ Len(mem'.heap[new].at_lock) = capacity(mem', buf'.st)
                /\ AllZero(mem'.heap[new].at_lock)
                /\ old # 0 =>
                     /\ mem'.heap[old].munlocks = 1
                     /\ Len(mem'.heap[old].at_unlock) = capacity(mem, buf.st)
                     /\ AllZero(mem'.heap[old].at_unlock)
                     /\ AllZero(mem'.heap[old].bytes)
                     /\ mem'.heap[old].live_at_unlock
                     /\ ~mem'.heap[old].live
       ELSE /\ op'.res.e = IoError
            /\ buf' = buf
            /\ mem'.locked = mem.locked
            /\ \A r \in Regions : mem'.heap[r] = mem.heap[r]]_vars

\* A push has just moved a Storage that held bytes to a new region.
C23_Witness ==
  /\ buf.stage = "alive"
  /\ op.name = "push"
  /\ op.res.ok
  /\ \E r \in Regions :
       /\ ~mem.heap[r].live
       /\ mem.heap[r].munlocks = 1
       /\ buf.st.len = Len(mem.heap[r].bytes) + 1
       /\ capacity(mem, buf.st) = 2 * Len(mem.heap[r].bytes)

\* Byte sequences a Storage is compared with.
Contents ==
  { <<>>, <<17>>, <<85>>, <<17, 34>>, <<17, 85>>, <<85, 17>>, <<85, 85>> }

\* Storage::from_slice(s) in a memory of its own, as PartialEq sees it.
FromSliceOf(s) ==
  LET f == Storage_from_slice(NoMemory, s, 1, TRUE)
  IN  Storage_view(f.m, unwrap(f.st))

\* C24: a Storage built from a byte sequence s has exactly s as its content,
\* and a Storage equals another exactly when both have the same length and
\* the same bytes over that length, whatever their capacities: the Storage
\* equals from_slice(s), on either side of ==, exactly when its content is s.
C24_ContentAndEquality ==
  /\ (op.name \in {"from_slice", "from_vec"} /\ op.res.ok) =>
       Storage_deref(mem, buf.st) = op.arg
  /\ buf.stage = "alive" =>
       LET self == Storage_view(mem, buf.st)
           content == Storage_deref(mem, buf.st)
       IN  \A s \in Contents :
             LET other == FromSliceOf(s)
             IN  /\ Storage_eq(self, other) <=> (content = s)
                 /\ Storage_eq(other, self) <=> (content = s)

\* with_capacity(2) followed by one push of 85: the content of from_slice of
\* that byte in a box twice as large.
C24_Witness ==
  /\ buf.stage = "alive"
  /\ op.name = "push"
  /\ capacity(mem, buf.st) = 2
  /\ Storage_deref(mem, buf.st) = <<85>>
  /\ Storage_eq(Storage_view(mem, buf.st), FromSliceOf(<<85>>))

\* The names still open after the tokens, innermost last, or the mark of a
\* closing tag that matched no open element.
RECURSIVE LeftOpen(_, _)
LeftOpen(tokens, open) ==
  IF tokens = <<>> THEN [crossed |-> FALSE, open |-> open]
  ELSE LET k == Head(tokens)
       IN  IF k.t = "Open" THEN LeftOpen(Tail(tokens), Append(open, k.name))
           ELSE IF k.t = "Close"
           THEN IF open # <<>> /\ open[Len(open)] = k.name
                THEN LeftOpen(Tail(tokens), SubSeq(open, 1, Len(open) - 1))
                ELSE [crossed |-> TRUE, open |-> open]
           ELSE LeftOpen(Tail(tokens), open)

\* An element is opened and never closed, or a close does not match the
\* open element.
Unbalanced(markup) ==
  LeftOpen(markup, <<>>).crossed \/ LeftOpen(markup, <<>>).open # <<>>

\* The elements of a tree, the root included.
RECURSIVE NodeCount(_)
Sum(f) == LET RECURSIVE S(_)
              S(n) == IF n = 0 THEN 0 ELSE f[n] + S(n - 1)
          IN  S(Len(f))
NodeCount(e) == 1 + Sum([i \in 1..Len(e.children) |-> NodeCount(e.children[i])])

\* The opening tags of a document.
Opens(markup) == Cardinality({ i \in 1..Len(markup) : markup[i].t = "Open" })

\* C25: parsing unbalanced or truncated markup returns an error: Dom::parse
\* never panics, whatever the document, it fails on every document with an
\* element left open or a close that matches no open element, and a tree it
\* returns is never partial: it holds one element for each opening tag.
C25_UnbalancedIsAnError ==
  dom.stage # "none" =>
    /\ dom.kind # "Panic"
    /\ Unbalanced(dom.markup) => dom.kind = "Err"
    /\ dom.kind = "Ok" =>
         /\ ~Unbalanced(dom.markup)
         /\ NodeCount(dom.root) = 1 + Opens(dom.markup)

\* The reply cut short after the opening tag of ok has been parsed.
C25_Witness ==
  /\ dom.stage = "parsed"
  /\ dom.markup = TruncatedReply
  /\ dom.kind = "Err"

\* The place of the first element named name among children, 0 when none
\* has the name.
FirstNamed(children, name) ==
  LET hits == { i \in 1..Len(children) : children[i].name = name }
  IN  IF hits = {} THEN 0 ELSE CHOOSE i \in hits : \A j \in hits : i <= j

\* The walk from e along path that takes the first child of the name at
\* each step and stops at the first step without one.
RECURSIVE FirstChildWalk(_, _)
FirstChildWalk(e, path) ==
  IF path = <<>> THEN Some(e)
  ELSE LET i == FirstNamed(e.children, Head(path))
       IN  IF i = 0 THEN None ELSE FirstChildWalk(e.children[i], Tail(path))

\* C26: Dom::element walks from the root and takes at each step the first
\* child, in document order, named as the path component; it returns none as
\* soon as a step has no such child, without going back to a later sibling
\* of the same name; for the empty path it returns the root.  In the reply
\* response/ok with uid 7 the path response, ok finds the element and its
\* attribute uid is 7.
C26_FirstChildAtEachStep ==
  dom.stage = "looked" =>
    /\ dom.found = FirstChildWalk(dom.root, dom.path)
    /\ dom.path = <<>> => dom.found = Some(dom.root)
    /\ (dom.markup = OkReply /\ dom.path = <<"response", "ok">>) =>
         /\ dom.found # None
         /\ Element_attribute(unwrap(dom.found), "uid")
              = Some(Attribute("uid", <<"7">>))
    /\ (dom.markup = TwinReply /\ dom.path = <<"response", "ok">>) =>
         /\ dom.found # None
         /\ Element_attribute(unwrap(dom.found), "uid")
              = Some(Attribute("uid", <<"1">>))
    /\ (dom.markup = TwinReply /\ dom.path = <<"response", "ok", "y">>) =>
         dom.found = None

\* The lookup of response, ok, y in the reply whose second ok, not its first,
\* holds y.
C26_Witness ==
  /\ dom.stage = "looked"
  /\ dom.markup = TwinReply
  /\ dom.path = <<"response", "ok", "y">>
  /\ dom.found = None

\* The vectors of test_login_key within the usernames and passwords in play:
\* the arguments of login_key and the key expected.
TestLoginKeys ==
  {
    [user |-> <<"b", "o", "b">>,
     pass |-> <<112, 97, 115, 115, 119, 111, 114, 100>>,
     n |-> 5000,
     expected |-> <<246, 142, 239, 29, 50, 122, 127, 63, 42, 12, 45, 199, 161, 122, 99, 175, 161, 134, 4, 227, 115, 144, 198, 236, 55, 187, 113, 191, 151, 86, 183, 170>>]
  ,
    [user |-> <<"b", "o", "b">>,
     pass |-> <<112, 97, 115, 115, 119, 111, 114, 100>>,
     n |-> 1000,
     expected |-> <<99, 122, 71, 115, 56, 109, 21, 60, 231, 253, 46, 40, 31, 47, 159, 253, 178, 137, 68, 95, 121, 33, 77, 15, 213, 181, 32, 16, 197, 102, 122, 107>>]
  ,
    [user |-> <<"l", "p", "a", "s", "s", "-", "r", "s">>,
     pass |-> <<115, 114, 45, 115, 115, 97, 112, 108>>,
     n |-> 1000,
     expected |-> <<172, 63, 139, 242, 41, 144, 110, 60, 255, 25, 100, 54, 239, 231, 27, 231, 63, 5, 105, 44, 4, 73, 182, 51, 75, 215, 52, 195, 16, 198, 162, 97>>] }

\* PBKDF2-HMAC-SHA256 of the arguments of the latest direct key derivation:
\* the crypto_key, and the login key over it.
DerivedCryptoKey == pbkdf2_hmac(call.kdf.pass, as_bytes(call.kdf.user), call.kdf.n)
DerivedLoginKey == pbkdf2_hmac(DerivedCryptoKey, call.kdf.pass, 1)

\* C27: with a count of at least 1000, crypto_key(u, p, n) is the 32 bytes of
\* PBKDF2-HMAC-SHA256 with secret p, salt u and n iterations, and
\* login_key(u, p, n) the 32 bytes of PBKDF2-HMAC-SHA256 with that
\* crypto_key as secret, salt p and 1 iteration; a login derives both with
\* the same count; the vectors of the test are login keys, not crypto keys.
C27_KeyDerivations ==
  /\ (pc = "returned" /\ result.call = "crypto_key" /\ result.ok) =>
       /\ call.kdf.n >= 1000
       /\ call.kdf.key = Some(DerivedCryptoKey)
       /\ Len(unwrap(call.kdf.key)) = 32
       /\ \A t \in TestLoginKeys : unwrap(call.kdf.key) # t.expected
  /\ (pc = "returned" /\ result.call = "login_key" /\ result.ok) =>
       /\ call.kdf.n >= 1000
       /\ call.kdf.key = Some(DerivedLoginKey)
       /\ Len(unwrap(call.kdf.key)) = 32
       /\ \A t \in TestLoginKeys :
            (t.user = call.kdf.user /\ t.pass = call.kdf.pass /\ t.n = call.kdf.n)
              => unwrap(call.kdf.key) = t.expected
  /\ (pc = "returned" /\ result.call = "login" /\ result.ok) =>
       /\ login_iterations >= 1000
       /\ session.crypto_key
            = Some(pbkdf2_hmac(password, as_bytes(session.username), login_iterations))
       /\ FieldsNamed(call.last_post, {"hash"})
            = { hex_encode(pbkdf2_hmac(unwrap(session.crypto_key), password, 1)) }

\* login_key has returned the key of a vector of the test.
C27_Witness ==
  /\ pc = "returned"
  /\ result.call = "login_key"
  /\ result.ok
  /\ \E t \in TestLoginKeys :
       /\ t.user = call.kdf.user /\ t.pass = call.kdf.pass /\ t.n = call.kdf.n
       /\ call.kdf.key = Some(t.expected)

\* The lowercased form of a text, letter by letter.
UpperLetters ==
  << "A", "B", "C", "D", "E", "F", "G", "H", "I", "J", "K", "L", "M",
     "N", "O", "P", "Q", "R", "S", "T", "U", "V", "W", "X", "Y", "Z" >>
LowerLetters ==
  << "a", "b", "c", "d", "e", "f", "g", "h", "i", "j", "k", "l", "m",
     "n", "o", "p", "q", "r", "s", "t", "u", "v", "w", "x", "y", "z" >>
Lowered(s) ==
  [i \in 1..Len(s) |->
     IF \E k \in 1..26 : UpperLetters[k] = s[i]
     THEN LowerLetters[CHOOSE k \in 1..26 : UpperLetters[k] = s[i]]
     ELSE s[i]]

\* The login.php requests of the current call.
LoginPosts == {call.first_post, call.last_post} \ {NoRequest}

\* C28: the username of a Session is always the lowercased form of the name
\* it was created with, and so are the email field of the iterations.php
\* request, the username field of every login.php request and the salt of
\* the key derivations: the hash field is the login key salted with it and
\* the crypto_key a login stores is salted with it.
C28_UsernameLowercase ==
  /\ session.username = Lowered(created_with)
  /\ call.iter_request # NoRequest =>
       /\ call.iter_request.page = "iterations.php"
       /\ FieldsNamed(call.iter_request, {"email"}) = { as_bytes(Lowered(created_with)) }
  /\ \A req \in LoginPosts :
       /\ FieldsNamed(req, {"username"}) = { as_bytes(Lowered(created_with)) }
       /\ FieldsNamed(req, {"hash"})
            = { hex_encode(pbkdf2_hmac(
                  pbkdf2_hmac(password, as_bytes(Lowered(created_with)),
                              login_iterations),
                  password, 1)) }
  /\ (pc = "returned" /\ result.call = "login" /\ result.ok) =>
       session.crypto_key
         = Some(pbkdf2_hmac(password, as_bytes(Lowered(created_with)),
                            login_iterations))

\* A Session created with a capital letter has fetched the count and sent
\* two login.php requests.
C28_Witness ==
  /\ created_with = <<"B", "o", "b">>
  /\ session.username = <<"b", "o", "b">>
  /\ call.iter_sent = 1
  /\ call.posts = 2

\* The names of the fields of a request, in order.
NamesInOrder(req) == [i \in 1..Len(req.fields) |-> req.fields[i][1]]

BaseNames ==
  << "xml", "username", "hash", "iterations", "includeprivatekeyenc",
     "method", "outofbandsupported" >>

\* C29: across the rounds of one login call the base fields are constant:
\* every login.php request begins with the same seven fields, in the same
\* order and with the same values; the iterations field is the cached count,
\* the one the hash was derived with; the first request has no further
\* field, and every resubmission has exactly one, the OTP field of the
\* latest challenge, which holds the code just supplied when it is sent.
C29_BaseFieldsConstant ==
  /\ \A req \in LoginPosts :
       /\ req.page = "login.php"
       /\ Len(req.fields) >= 7
       /\ SubSeq(NamesInOrder(req), 1, 7) = BaseNames
       /\ SubSeq(req.fields, 1, 7) = SubSeq(call.first_post.fields, 1, 7)
       /\ session.iterations = Some(login_iterations)
       /\ digits_value(from_utf8(req.fields[4][2])) = login_iterations
       /\ req.fields[3][2]
            = hex_encode(pbkdf2_hmac(
                pbkdf2_hmac(password, as_bytes(session.username),
                            unwrap(session.iterations)),
                password, 1))
  /\ call.posts >= 1 => Len(call.first_post.fields) = 7
  /\ call.posts >= 2 =>
       /\ Len(call.last_post.fields) = 8
       /\ call.last_post.fields[8][1] \in {"otp", "sesameotp"}
       /\ call.last = "post" =>
            /\ call.prompt_m = challenge
            /\ call.last_post.fields[8][1]
                 = (IF challenge = "Sesame" THEN "sesameotp" ELSE "otp")
            /\ call.last_post.fields[8][2] = unwrap(call.prompt_answer)

\* The third login.php request of a call, after two OTP rounds, has been
\* sent.
C29_Witness ==
  /\ pc = "login_wait"
  /\ call.posts = 3
  /\ call.supplied = 2
  /\ Len(call.last_post.fields) = 8

\* C30: in every reachable state of a Session the crypto_key is present only
\* if the session is authenticated (it holds a session id and a token), so
\* a login call that got no response/ok reply leaves the crypto_key unset.
C30_CryptoKeyOnlyIfAuthenticated ==
  is_some(session.crypto_key) => is_authenticated(session)

\* ---------------------------------------------------------------------
\* C31: a login.php round that fails leaves the identity of the session
\* as it was before the round: when try_login gives an error, uid,
\* session_id and session_token keep the values they had when the reply
\* arrived.
Identity(s) ==
  [uid |-> s.uid, session_id |-> s.session_id, session_token |-> s.session_token]

RoundFails ==
  /\ pc = "login_wait"
  /\ call'.replies = call.replies + 1
  /\ ~call'.res.ok

C31_FailedRoundKeepsIdentity ==
  [][RoundFails => Identity(session') = Identity(session)]_vars

\* The step is a push that returned Ok.
PushThatSucceeds ==
  /\ buf.stage = "alive"
  /\ op'.name = "push"
  /\ op'.res.ok

\* C32: the length of a Storage never exceeds its capacity, and a push that
\* succeeds adds exactly one to the length and leaves the content as the
\* content before it followed by the pushed byte, whatever constructor built
\* the Storage; the capacity is unchanged when there was room, becomes 32
\* when the Storage was empty and full, and doubles otherwise, every byte
\* stored before being kept.
C32_PushAppends ==
  /\ [](buf.stage = "alive" => buf.st.len <= capacity(mem, buf.st))
  /\ [][PushThatSucceeds =>
          /\ buf'.st.len = buf.st.len + 1
          /\ buf'.st.len <= capacity(mem', buf'.st)
          /\ Storage_deref(mem', buf'.st)
               = Append(Storage_deref(mem, buf.st), op'.arg[1])
          /\ capacity(mem', buf'.st)
               = (IF buf.st.len < capacity(mem, buf.st) THEN capacity(mem, buf.st)
                  ELSE IF buf.st.len = 0 THEN 32
                  ELSE 2 * buf.st.len)]_vars

\* A Storage built from two bytes has taken two pushes: the first doubled
\* its capacity and carried the two bytes over, the second used the room
\* left.
C32_Witness ==
  /\ buf.stage = "alive"
  /\ op.name = "push"
  /\ op.res.ok
  /\ Storage_deref(mem, buf.st) = <<17, 34, 85, 85>>
  /\ capacity(mem, buf.st) = 4
  /\ \E r \in Regions : ~mem.heap[r].live /\ Len(mem.heap[r].bytes) = 2

\* The tags of a tree in document order: the opening tag of an element, the
\* tags of its children from first to last, its closing tag.
RECURSIVE Tags(_)
TagsOfAll(elements) ==
  LET RECURSIVE T(_)
      T(n) == IF n = 0 THEN <<>> ELSE T(n - 1) \o Tags(elements[n])
  IN  T(Len(elements))
Tags(e) == <<Open(e.name, e.attributes)>> \o TagsOfAll(e.children) \o <<Close(e.name)>>

IsTag(k) == k.t # "Text"

\* The reader yielded no error for the document.
WellNested(events) == \A i \in 1..Len(events) : events[i].t # "Error"

\* The element stack of do_parse after the first n events.
StackAfter(n) ==
  do_parse_stack(SubSeq(dom.events, 1, n), <<Element("[root]", <<>>, <<>>)>>)

\* C33: on every well-nested event stream the builder, starting from the
\* synthetic root alone, never stops before the end of the events; when a
\* closing event arrives the stack holds the closed element above at least
\* one other, and the event leaves the stack without its top, the closed
\* element added as the last child of the new top and nothing else changed;
\* an opening event puts a childless element on top; at the end the stack
\* is the root alone, which is the root of the Dom returned, and the tags of
\* its children in document order are the tags of the document.
C33_OnePassStackBuildsTheTree ==
  (dom.stage # "none" /\ WellNested(dom.events)) =>
    /\ \A n \in 0..(Len(dom.events) - 1) :
         LET before == StackAfter(n)
             after == StackAfter(n + 1)
             e == dom.events[n + 1]
             depth == Len(before.stack)
         IN  /\ before.kind = "Ok" /\ after.kind = "Ok"
             /\ depth >= 1
             /\ before.stack[1].name = "[root]"
             /\ e.t = "EndElement" =>
                  /\ depth >= 2
                  /\ before.stack[depth].name = e.name
                  /\ Len(after.stack) = depth - 1
                  /\ \A i \in 1..(depth - 2) : after.stack[i] = before.stack[i]
                  /\ after.stack[depth - 1]
                       = [before.stack[depth - 1] EXCEPT
                            !.children = Append(@, before.stack[depth])]
             /\ e.t = "StartElement" =>
                  after.stack = Append(before.stack,
                                       Element(e.name, e.attributes, <<>>))
             /\ e.t = "Other" => after.stack = before.stack
    /\ dom.kind = "Ok"
    /\ StackAfter(Len(dom.events)).stack = <<dom.root>>
    /\ dom.root.name = "[root]"
    /\ TagsOfAll(dom.root.children) = SelectSeq(dom.markup, IsTag)

\* The reply with two ok siblings, each with a child, has been built into a
\* tree: the siblings are in the order of the document.
C33_Witness ==
  /\ dom.stage = "parsed"
  /\ dom.markup = TwinReply
  /\ dom.kind = "Ok"
  /\ Len(dom.root.children) = 1
  /\ Len(dom.root.children[1].children) = 2
  /\ dom.root.children[1].children[1].children[1].name = "x"
  /\ dom.root.children[1].children[2].children[1].name = "y"

\* A call of login is in progress: it waits for the network or the provider.
InLogin == pc \in {"login_wait", "otp"}

\* The server has just demanded a one-time password.
OtpDemanded ==
  /\ pc = "otp"
  /\ call.last = "reply"
  /\ ~call.res.ok
  /\ call.res.e.kind = "OtpRequired"

\* The provider has just supplied one and the request that carries it is
\* in flight.
OtpJustSupplied ==
  /\ pc = "login_wait"
  /\ call.last = "post"
  /\ call.prompts >= 1
  /\ call.prompt_answer # None

\* The step takes a reply that is not an OTP-required cause.
OtherReplyTaken ==
  /\ pc = "login_wait"
  /\ call'.last = "reply"
  /\ ~(~call'.res.ok /\ call'.res.e.kind = "OtpRequired")

\* The step takes the provider's refusal.
RefusalTaken ==
  /\ pc = "otp"
  /\ call'.last = "prompt"
  /\ call'.prompt_answer = None

\* C34: when every network call and every provider call returns, a reply
\* that is not an OTP-required cause ends the call of login, and so does a
\* prompt the provider answers with no value; a call of login that never
\* ends is one where, again and again without end, the server demands a
\* one-time password and the provider supplies one.
C34_EndsUnlessOtpForever ==
  /\ [][OtherReplyTaken => ~InLogin']_vars
  /\ [][RefusalTaken => ~InLogin']_vars
  /\ (<>[]InLogin) => ([]<>OtpDemanded /\ []<>OtpJustSupplied)

\* A call of login has gone through more answered prompts than any bound
\* and waits for the next reply.
C34_Witness ==
  /\ OtpJustSupplied
  /\ call.supplied = CountCap
  /\ call.posts = CountCap

====
